---- MODULE Spec2Model ----
(***************************************************************************)
(* syl-listing-pro: the run controller RunGen (bounded worker pool,        *)
(* per-task poll/trace loop, interrupt-driven remote cancellation), the    *)
(* output namer UniquePair and the exit-code mapping of cmd.Execute.       *)
(***************************************************************************)
EXTENDS Integers, Sequences, FiniteSets, TLC

\* ------------------------------------------------------------------ bounds
RunTasks == 1          \* most tasks (files x replicas) a run of the CLI builds
PoolTasks == 2         \* tasks of a run on a context that stays live
QueueTasks == 2        \* tasks of a run on a context with a deadline
NumIds == 2            \* size of the abstract id space randomN(4) draws from
MaxFetches == 2        \* JobTrace answers the service may choose freely (trace runs)
MaxPolls == 1          \* "running" answers of Job before a terminal one (trace runs)
MaxItems == 1          \* most items in one JobTrace page
MaxOffset == 1         \* largest next_offset the service answers
MaxFaults == 1         \* answers other than the expected one (an error, a blank job id,
                       \* a job that failed) the environment gives on a live context
MaxAttempt == 7        \* largest attempt number retryBackoff is asked for
LiveTasks == 1         \* tasks of a run whose jobs may never report a terminal status
CancelJobs == 9        \* jobs registered when the cancel helper takes its snapshot
EmitLen == 2           \* most items of a page handed to the item loop on its own
MaxFiles == 2          \* most requirement files handed to buildGenerateTasks
MaxNum == 3            \* largest opts.Num handed to buildGenerateTasks
MaxField == 3          \* largest number in a field of a length-constraint error
MaxInt == 2            \* largest number strconv.Atoi parses (stands for math.MaxInt)
LogCallers == 2        \* goroutines that call the Logger
LogCalls == 2          \* calls of Info or Event each of them makes

\* ------------------------------------------------------- program constants
SerialCap == 1             \* maxConcurrentTasks in TestRunGen_ContextCancelWithQueuedTasks
ParallelCap == 2           \* maxConcurrentTasks in TestRunGen_ConcurrencyLimit
cancelPermits == 8         \* capacity of the cancel helper's semaphore
drainBursts == 3           \* JobTrace requests per drain
retryBackoffBase == 300    \* milliseconds
retryBackoffMax == 4000    \* milliseconds
defaultMaxAttempts == 3    \* resolve, download
exchangeMaxAttempts == 5   \* exchange (and jobPollMaxAttempts: poll, trace, result)

Max(a, b) == IF a > b THEN a ELSE b
NumTasks == Max(Max(RunTasks, LiveTasks), Max(PoolTasks, QueueTasks))
Tasks == 1..NumTasks
Ids == 1..NumIds
JobIds == 1..Max(NumTasks, CancelJobs)   \* the job ids the service hands out
Blank == 0                 \* a job id that is empty after TrimSpace
NoJob == -1                \* Generate has not answered yet
Forever == -1              \* pollLeft of a job that never reports a terminal status
Langs == {"en", "cn", "en_docx", "cn_docx"}
Paths == Ids \X Langs
Absent == 0                \* no file at the path
Partial(t) == 0 - t        \* what a failed write or converter of task t left behind
WarnLine == "trace_fetch_failed"   \* the line "过程拉取失败，继续执行：<err>"
Msgs == {"m1", "m2"}       \* rendered, non-blank trace lines
Tenants == {"a", "b"}     \* tenant ids with a cache directory of their own
ItemKinds == Msgs \cup {"suppressed", "silent"}

VARIABLES
    ctx,            \* the context RunGen got: "active" | "canceled" | "deadline"
    queuedAtEnd,    \* the task was waiting for a permit or inside Generate when the context ended
    verbose,        \* opts.Verbose
    cacheUsable,    \* st.RulesVersion != "" && HasArchive(st.ArchivePath)
    mainPc,         \* position of RunGen's own goroutine
    ret,            \* RunGen's return value
    exitCode,       \* the process exit code set by Execute (-1: still running)
    k,              \* number of tasks built
    semSize,        \* capacity of sem: the package variable maxConcurrentTasks
    pc,             \* position of each worker goroutine
    loc,            \* the locals of each worker goroutine and of its runGenerateTask
    outcome,        \* "none" | "success" | "failed": the counter the task incremented
    final,          \* the last line the worker logged for the task before it returned
    cur,            \* permits of sem that are held
    successCount, failedCount,
    registry,       \* submittedJobRegistry.jobs: job id -> label (the task)
    log,            \* per task: the log records its trace drains caused
    bursts,         \* per task: how many maximal runs of failed JobTrace fetches began
    fetchLeft,      \* JobTrace answers the service may still choose freely
    pollLeft,       \* "running" answers Job may still give
    disk,           \* output directory: path -> content
    faults,         \* unexpected answers the environment has given on a live context
    watcherPc,      \* the goroutine waiting on ctx.Done()
    once,           \* cancelOnce: "fresh" | "running" | "done"
    runner,         \* who runs the body of cancelOnce.Do
    cancelDone,     \* the channel cancelDone is closed
    jobs,           \* the snapshot the helper body took
    cpc,            \* position of each cancel goroutine
    cancelCur,      \* permits of cancelSem that are held
    cancelCtxExpired, \* the 20 s deadline of cancelCtx has passed
    cancelCalls,    \* CancelJob requests issued per job id
    bodyRuns,       \* how often the body of cancelSubmittedTasks began
    timeoutLogged,  \* "取消等待超时，已退出" was logged
    sync,           \* the rules sync of RunGen: the cache on disk and what the sync did
    vfy,            \* a call of VerifyArchiveSignatureWithBundledKeyOpenSSL: inputs, result
    bk,             \* calls of retryBackoff: two attempt numbers and the results
    fs,             \* a call of rules.SaveState that may be cut short, and a later LoadState
    rt,             \* a call of doJSONWithRetry / downloadWithRetry
    em,             \* the item loop of drainTrace run on one page: inputs, records
    fn,             \* a call of one of the pure helpers of the run: inputs, result
    lg              \* a Logger, its callers and its two sinks

ctxVars == <<ctx, queuedAtEnd>>
mainVars == <<mainPc, ret, exitCode, k, semSize, cacheUsable, verbose, timeoutLogged, sync>>
workerVars == <<pc, loc, outcome, final, cur, successCount, failedCount>>
envVars == <<registry, log, fetchLeft, pollLeft, disk>>
helperVars == <<once, runner, cancelDone, jobs, cpc, cancelCur, cancelCtxExpired,
                cancelCalls, bodyRuns>>
libVars == <<vfy, bk, fs, rt, em, fn, lg>>
vars == <<ctxVars, mainVars, workerVars, envVars, bursts, faults, watcherPc, helperVars,
          libVars>>

Built == 1..k

\* the locals of a worker: the call in flight began on a live context (live),
\* resp.JobID, where drainTrace returns to, its loop index i, the trace cursor,
\* whether the last fetch failed (inBurst), the Result response held, the id
\* UniquePair returned, whether time.Now() is after the poll deadline (late) and
\* what the previous JobTrace of the drain under way answered (page)
InitLoc == [live |-> FALSE, jobID |-> NoJob, drainRet |-> "poll", i |-> 0,
            traceOffset |-> 0, traceWarned |-> FALSE, lastTraceLine |-> "",
            inBurst |-> FALSE, resData |-> 0, pair |-> 0, late |-> FALSE,
            page |-> "none"]

\* ------------------------------------------------------------ pure helpers

\* errors.Is(err, context.Canceled) on RunGen's return value
IsCanceled(r) == r = "canceled"

\* the error an HTTP call returns once the context has ended
CtxError(c) == IF c = "canceled" THEN "canceled" ELSE "deadlineErr"

NoSemGuard(c, size) == TRUE
\* semaphore.Weighted: a permit is granted only while fewer than the capacity are held
CanAcquire(c, size) == c < size

\* submittedJobRegistry.add
RegistryAdd(reg, id, label) ==
    IF id = Blank THEN reg
    ELSE [x \in DOMAIN reg \cup {id} |-> IF x = id THEN label ELSE reg[x]]

\* submittedJobRegistry.snapshot (the job ids; the labels go to the log only)
Snapshot(reg) == DOMAIN reg

OnceNeverGuards(o) == TRUE
\* sync.Once: the body runs only for the first caller
OnceMayRun(o) == o = "fresh"

ResultIgnoresCancel(c, failed) == IF failed > 0 THEN "failedTasks" ELSE "nil"
\* RunGen's return value after wg.Wait()
RunGenResult(c, failed) ==
    IF c = "canceled" THEN "canceled"
    ELSE IF failed > 0 THEN "failedTasks" ELSE "nil"

\* Execute: nil -> 0, context.Canceled -> 130, any other error -> 1
ExitCodeOf(r) == IF r = "nil" THEN 0 ELSE IF IsCanceled(r) THEN 130 ELSE 1

\* os.Stat(path) succeeds
Exists(d, p) == d[p] # Absent

\* the ids for which neither stat of UniquePair finds a file
FreeIds(d) == {s \in Ids : ~Exists(d, <<s, "en">>) /\ ~Exists(d, <<s, "cn">>)}

SkipNothing(item) == FALSE
\* shouldSkipVerboseWorkerTrace: source api, event job_status_read / job_result_not_ready
ShouldSkipVerbose(item) == item = "suppressed"

\* renderWorkerTraceLine: "" for the suppressed pair and for events without a line
Render(item) == IF item \in Msgs THEN item ELSE ""

CancelledLoggedAsFailure(at, ended, drainRet) ==
    IF at \in {"generate", "job"} THEN (IF ended THEN "ctx_cancelled" ELSE "error")
    ELSE IF at = "trace"
    THEN (IF drainRet = "poll" THEN "timeout" ELSE "service_error")
    ELSE "error"

\* The line logged before a "return false" of the worker: at is the call or step
\* that ended the task, ended says the error is the context's, drainRet is what
\* the drain that just finished returns to. "ctx_cancelled" is "已取消" (Generate
\* or Job failed with a context error), "timeout" "生成失败：轮询超时",
\* "service_error" "生成失败：<stResp.Error>", "job_cancelled" "生成已取消", "error"
\* every other "生成失败：..." line (sem.Acquire, Generate, Job, Result, UniquePair,
\* the writes, the converters).
ExitLine(at, ended, drainRet) ==
    IF at \in {"generate", "job"} THEN (IF ended THEN "ctx_cancelled" ELSE "error")
    ELSE IF at = "trace"
    THEN (IF drainRet = "poll" THEN "timeout"
          ELSE IF drainRet = "failed" THEN "service_error" ELSE "job_cancelled")
    ELSE "error"

NeverLate(late) == FALSE
\* time.Now().After(deadline) in the poll loop
DeadlinePassed(late) == late

FetchWhileItems(items, hasMore, i) == items # <<>> /\ i + 1 < drainBursts
\* drainTrace goes on to another JobTrace: the page had items, has_more was set
\* and the loop index allows it
FetchAgain(items, hasMore, i) == items # <<>> /\ hasMore /\ i + 1 < drainBursts

\* what a JobTrace answer was, for the drain: no items, items and has_more, items
\* and no has_more
PageKind(items, hasMore) ==
    IF items = <<>> THEN "empty" ELSE IF hasMore THEN "more" ELSE "last"

CancelCtxFromMain(mainCtx, expired) == expired \/ mainCtx # "active"
\* cancelCtx.Done() is closed: cancelCtx is context.WithTimeout(context.Background(),
\* 20 s), so only its own deadline ends it
CancelCtxDone(mainCtx, expired) == expired

\* needDownload of RunGen
NeedDownload(upToDate, hasArchive, same) == ~upToDate \/ ~hasArchive \/ ~same

\* the sha256 values a download can have; res.ManifestSHA is the advertised one
Shas == {"sha_a", "sha_b"}
ManifestSHA == "sha_a"

ShaAlwaysMatches(got, want) == TRUE
\* RunGen: the branch "gotSHA != res.ManifestSHA" is not taken
ShaMatches(got, want) == got = want

\* What VerifyArchiveSignatureWithBundledKeyOpenSSL is called with: the two
\* signatures ("blank" after TrimSpace, not base64, a signature that does not
\* verify, the right one), the path of the signing key in the archive ("blank",
\* not a readable file of the archive, present) and whether the embedded root key
\* can be put in place and read.
SigKinds == {"blank", "notb64", "wrong", "good"}
PathKinds == {"blank", "missing", "present"}
VerifyInputs == [archSig : SigKinds, keyPath : PathKinds, keySig : SigKinds, rootOk : BOOLEAN]
GoodInput == [archSig |-> "good", keyPath |-> "present", keySig |-> "good", rootOk |-> TRUE]

VerifyArchiveSigFirst(in) ==
    IF in.archSig = "blank" THEN "archive_sig_missing"
    ELSE IF in.keyPath = "blank" THEN "key_path_missing"
    ELSE IF in.keySig = "blank" THEN "key_sig_missing"
    ELSE IF ~in.rootOk THEN "root_key_error"
    ELSE IF in.keyPath = "missing" THEN "extract_error"
    ELSE IF in.archSig = "notb64" THEN "archive_sig_decode"
    ELSE IF in.archSig = "wrong" THEN "archive_verify_failed"
    ELSE IF in.keySig = "notb64" THEN "key_sig_decode"
    ELSE IF in.keySig = "wrong" THEN "key_verify_failed"
    ELSE "ok"

\* VerifyArchiveSignatureWithBundledKeyOpenSSL: the error returned, "ok" for nil.
\* archive_sig_missing "规则签名缺失", key_path_missing "规则签名公钥路径缺失",
\* key_sig_missing "规则签名公钥签名缺失", root_key_error (ensureRootPublicKey or the
\* read of the root key), extract_error (extractFileFromTarGz), key_sig_decode
\* "解析签名公钥签名失败", key_verify_failed "规则签名公钥验签失败", archive_sig_decode
\* "解析规则包签名失败", archive_verify_failed "规则包验签失败"
VerifyArchive(in) ==
    IF in.archSig = "blank" THEN "archive_sig_missing"
    ELSE IF in.keyPath = "blank" THEN "key_path_missing"
    ELSE IF in.keySig = "blank" THEN "key_sig_missing"
    ELSE IF ~in.rootOk THEN "root_key_error"
    ELSE IF in.keyPath = "missing" THEN "extract_error"
    ELSE IF in.keySig = "notb64" THEN "key_sig_decode"
    ELSE IF in.keySig = "wrong" THEN "key_verify_failed"
    ELSE IF in.archSig = "notb64" THEN "archive_sig_decode"
    ELSE IF in.archSig = "wrong" THEN "archive_verify_failed"
    ELSE "ok"

\* ------------------------------------------------------------------- Init

\* the sync before RunGen's LoadState: ver is "the cached RulesVersion is not
\* empty", usable0 "the cache was usable when the run began"; same is "the version
\* the service resolved is the cached one", json the content of current.json,
\* notice the fallback notice logged, failed the step of the sync that failed,
\* trail the steps after the download in their order, shaOk / sigOk whether the
\* downloaded bytes had the advertised sha256 and verifying signatures, unverified
\* "st.ArchivePath holds bytes whose signature check did not pass"
SyncStart(ver, usable) ==
    [ver |-> ver, usable0 |-> usable, same |-> FALSE, json |-> "prev",
     notice |-> "none", failed |-> "none", trail |-> <<>>,
     shaOk |-> FALSE, sigOk |-> FALSE, unverified |-> FALSE]


\* no call of the library functions below is under way
VfyIdle == [in |-> GoodInput, res |-> "none"]
BkIdle == [a |-> 0, b |-> 0, ra |-> -1, rb |-> -1]
FsIdle == [target |-> "a", prev |-> [t \in Tenants |-> "absent"],
           files |-> [t \in Tenants |-> "absent"], pc |-> "idle",
           crashed |-> FALSE, loaded |-> [t \in Tenants |-> "none"]]
NoAnswer == [kind |-> "none", code |-> 0, name |-> ""]
RtIdle == [kind |-> "json", max |-> defaultMaxAttempts, pc |-> "idle", attempt |-> 0,
           live |-> FALSE, ans |-> NoAnswer, endedAtWait |-> FALSE, res |-> "none",
           trace |-> <<>>]
EmIdle == [items |-> <<>>, vb |-> FALSE, last |-> "", pc |-> "idle", out |-> <<>>]
FnIdle == [op |-> "none", pc |-> "idle", out |-> <<>>]
LgIdle == [vb |-> FALSE, withFile |-> FALSE, mu |-> 0, stdout |-> <<>>, file |-> <<>>,
           pcs |-> <<>>, line |-> <<>>, made |-> <<>>]
LibIdle ==
    /\ vfy = VfyIdle /\ bk = BkIdle /\ fs = FsIdle /\ rt = RtIdle /\ em = EmIdle
    /\ fn = FnIdle /\ lg = LgIdle

InitTasks(n) ==
    /\ pc = [t \in Tasks |-> IF t <= n THEN "acquire" ELSE "unbuilt"]
    /\ loc = [t \in Tasks |-> InitLoc]
    /\ outcome = [t \in Tasks |-> "none"]
    /\ final = [t \in Tasks |-> "none"]
    /\ cur = 0 /\ successCount = 0 /\ failedCount = 0
    /\ registry = <<>>
    /\ log = [t \in Tasks |-> <<>>]
    /\ bursts = [t \in Tasks |-> 0]
    /\ faults = 0
    /\ disk = [p \in Paths |-> Absent]
    /\ ctx = "active" /\ queuedAtEnd = [t \in Tasks |-> FALSE]
    /\ ret = "none" /\ exitCode = -1 /\ timeoutLogged = FALSE

\* the watcher goroutine at w, cancelSubmittedTasks not yet called
InitHelper(w) ==
    /\ watcherPc = w
    /\ once = "fresh" /\ runner = "none" /\ cancelDone = FALSE
    /\ jobs = {} /\ cpc = [j \in JobIds |-> "idle"]
    /\ cancelCur = 0 /\ cancelCtxExpired = FALSE
    /\ cancelCalls = [j \in JobIds |-> 0]
    /\ bodyRuns = 0

\* A run of the CLI: RunGen is entered with a live context and one permit; the
\* service answers every JobTrace with the empty page while the context lives.
Init ==
    /\ verbose = FALSE
    /\ cacheUsable \in BOOLEAN
    /\ \E ver \in BOOLEAN : (cacheUsable => ver) /\ sync = SyncStart(ver, cacheUsable)
    /\ LibIdle
    /\ mainPc = "exchange" /\ k = 0
    /\ semSize = SerialCap
    /\ fetchLeft = [t \in Tasks |-> 0]
    /\ pollLeft = [t \in Tasks |-> 0]
    /\ InitTasks(0) /\ InitHelper("unstarted")

\* RunGen after a successful bootstrap: n tasks built and their workers started,
\* maxConcurrentTasks set to cap, the service answering each JobTrace with the
\* empty page.
InitRunning(n, cap) ==
    /\ verbose = FALSE
    /\ cacheUsable = TRUE
    /\ sync = SyncStart(TRUE, TRUE)
    /\ mainPc = "wait" /\ k = n
    /\ semSize = cap
    /\ fetchLeft = [t \in Tasks |-> 0]
    /\ pollLeft = [t \in Tasks |-> 0]
    /\ InitTasks(n) /\ InitHelper("waiting")

InitWorkers(n, cap) == InitRunning(n, cap) /\ LibIdle

\* the worker pool with one or two permits
InitPool == \E cap \in {SerialCap, ParallelCap} : InitWorkers(PoolTasks, cap)

\* one permit, as in the test of queued tasks
InitQueue == InitWorkers(QueueTasks, SerialCap)

\* One task after a successful bootstrap, the service free to answer JobTrace
\* with errors and pages of items, in either log mode.
InitTrace ==
    /\ verbose \in BOOLEAN
    /\ cacheUsable = TRUE
    /\ sync = SyncStart(TRUE, TRUE)
    /\ LibIdle
    /\ mainPc = "wait" /\ k = 1
    /\ semSize = SerialCap
    /\ fetchLeft = [t \in Tasks |-> IF t = 1 THEN MaxFetches ELSE 0]
    /\ pollLeft = [t \in Tasks |-> IF t = 1 THEN MaxPolls ELSE 0]
    /\ InitTasks(1) /\ InitHelper("waiting")

\* ----------------------------------------------------------- the context

\* SIGINT/SIGTERM (signal.NotifyContext) or the caller's cancel()
CtxCancel ==
    /\ ctx = "active" /\ mainPc \notin {"returned", "exited"}
    /\ ctx' = "canceled"
    /\ queuedAtEnd' = [t \in Tasks |-> pc[t] \in {"acquire", "generate"}]
    /\ UNCHANGED <<mainVars, workerVars, envVars, bursts, faults, watcherPc, helperVars,
                   libVars>>

\* the deadline of a context.WithTimeout the caller passed in
CtxDeadline ==
    /\ ctx = "active" /\ mainPc \notin {"returned", "exited"}
    /\ ctx' = "deadline"
    /\ queuedAtEnd' = [t \in Tasks |-> pc[t] \in {"acquire", "generate"}]
    /\ UNCHANGED <<mainVars, workerVars, envVars, bursts, faults, watcherPc, helperVars,
                   libVars>>

\* ------------------------------------------------------- worker goroutines

FailStopsSiblings(t) ==
    /\ pc' = [u \in Tasks |-> IF pc[u] = "unbuilt" THEN "unbuilt" ELSE "done"]
    /\ loc' = [loc EXCEPT ![t] = InitLoc]
    /\ outcome' = [outcome EXCEPT ![t] = "failed"]
    /\ final' = [final EXCEPT ![t] = ExitLine(pc[t], ctx # "active", loc[t].drainRet)]
    /\ failedCount' = failedCount + 1
    /\ cur' = cur - 1
    /\ UNCHANGED successCount

\* the worker returns false: failedCount.Add(1), deferred sem.Release(1), wg.Done();
\* the goroutine and its locals are gone
Fail(t) ==
    /\ pc' = [pc EXCEPT ![t] = "done"]
    /\ loc' = [loc EXCEPT ![t] = InitLoc]
    /\ outcome' = [outcome EXCEPT ![t] = "failed"]
    /\ final' = [final EXCEPT ![t] = ExitLine(pc[t], ctx # "active", loc[t].drainRet)]
    /\ failedCount' = failedCount + 1
    /\ cur' = cur - 1
    /\ UNCHANGED successCount

SucceedUncounted(t) ==
    /\ pc' = [pc EXCEPT ![t] = "done"]
    /\ loc' = [loc EXCEPT ![t] = [InitLoc EXCEPT !.resData = loc[t].resData,
                                                 !.pair = loc[t].pair]]
    /\ outcome' = [outcome EXCEPT ![t] = "success"]
    /\ final' = [final EXCEPT ![t] = "written"]
    /\ cur' = cur - 1
    /\ UNCHANGED <<successCount, failedCount, faults>>

\* the worker returns true: successCount.Add(1), deferred sem.Release(1), wg.Done();
\* what it wrote and where stays on record
Succeed(t) ==
    /\ pc' = [pc EXCEPT ![t] = "done"]
    /\ loc' = [loc EXCEPT ![t] = [InitLoc EXCEPT !.resData = loc[t].resData,
                                                 !.pair = loc[t].pair]]
    /\ outcome' = [outcome EXCEPT ![t] = "success"]
    /\ final' = [final EXCEPT ![t] = "written"]
    /\ successCount' = successCount + 1
    /\ cur' = cur - 1
    /\ UNCHANGED <<failedCount, faults>>

\* the environment gives an answer other than the expected one, of its own accord
OwnFault == faults < MaxFaults /\ faults' = faults + 1

\* an answer other than the expected one: of the environment's own accord on a live
\* context, the consequence of the context's end afterwards
Fault == IF ctx = "active" THEN OwnFault ELSE UNCHANGED faults

\* the call or step the worker is at returns an error, and the worker false
Failure(t) == Fault /\ Fail(t)

\* a local step (no HTTP call) that leaves the locals as nl
Step(t, next, nl) ==
    /\ pc' = [pc EXCEPT ![t] = next]
    /\ loc' = [loc EXCEPT ![t] = nl]
    /\ UNCHANGED <<outcome, final, cur, successCount, failedCount>>

\* the worker goes on to its next HTTP call, which starts on the context as it is now
Call(t, next, nl) == Step(t, next, [nl EXCEPT !.live = (ctx = "active")])

\* the answer was the expected one
Expected == UNCHANGED faults

CallIgnoresContext(t) == TRUE
\* An HTTP call can answer successfully only if it began on a live context;
\* it fails with the context's error once the context has ended.
MaySucceed(t) == loc[t].live

\* sem.Acquire(ctx, 1): granted while a permit is free (on an ended context the
\* library may or may not still grant a free permit); fails once the context ended.
TaskAcquire(t) ==
    /\ pc[t] = "acquire"
    /\ \/ /\ CanAcquire(cur, semSize)
          /\ pc' = [pc EXCEPT ![t] = "generate"]
          /\ loc' = [loc EXCEPT ![t].live = (ctx = "active")]
          /\ cur' = cur + 1
          /\ UNCHANGED <<outcome, final, successCount, failedCount>>
       \/ /\ ctx # "active"
          /\ pc' = [pc EXCEPT ![t] = "done"]
          /\ outcome' = [outcome EXCEPT ![t] = "failed"]
          /\ final' = [final EXCEPT ![t] = ExitLine("acquire", TRUE, "poll")]
          /\ failedCount' = failedCount + 1
          /\ UNCHANGED <<loc, cur, successCount>>
    /\ UNCHANGED <<ctxVars, libVars, mainVars, envVars, bursts, faults, watcherPc, helperVars>>

\* api.Generate returns
TaskGenerateReturn(t) ==
    /\ pc[t] = "generate"
    /\ \/ /\ MaySucceed(t)
          /\ \/ Expected /\ Step(t, "register", [loc[t] EXCEPT !.jobID = t])
             \/ OwnFault /\ Step(t, "register", [loc[t] EXCEPT !.jobID = Blank])
       \/ Failure(t)
    /\ UNCHANGED <<ctxVars, libVars, mainVars, envVars, bursts, watcherPc, helperVars>>

\* onJobSubmitted(resp.JobID), then the first drainTrace of the poll loop begins
TaskRegister(t) ==
    /\ pc[t] = "register"
    /\ registry' = RegistryAdd(registry, loc[t].jobID, t)
    /\ Call(t, "trace", [loc[t] EXCEPT !.drainRet = "poll", !.i = 0])
    /\ Expected
    /\ UNCHANGED <<ctxVars, libVars, mainVars, log, fetchLeft, pollLeft, disk, bursts,
                   watcherPc, helperVars>>

\* ------------------------------------------------------------- drainTrace

\* the pages JobTrace can answer: <<items, has_more, next_offset>>
ItemSeqs == UNION {[1..n -> ItemKinds] : n \in 0..MaxItems}
Pages == ItemSeqs \X BOOLEAN \X (0..MaxOffset)

\* the page a service with nothing to report answers
EmptyPage(t) == <<(<<>>), FALSE, loc[t].traceOffset>>

NeverDup(msg, last) == FALSE
\* drainTrace, non-verbose: msg == lastTraceLine
IsDup(msg, last) == msg = last

WarnAlways(vb, warned) == ~vb
\* drainTrace: the branch "else if !traceWarned" of a failed fetch
ShouldWarn(vb, warned) == ~vb /\ ~warned

\* the body of "for _, item := range tr.Items" for one item;
\* st = <<lastTraceLine, the task's log>>
EmitItem(item, st, vb) ==
    IF vb /\ ShouldSkipVerbose(item) THEN st
    ELSE LET log1 == IF vb THEN Append(st[2], <<"event", "worker_trace">>)
                     ELSE st[2]
             msg == Render(item)
         IN  IF msg = "" THEN <<st[1], log1>>
             ELSE IF ~vb /\ IsDup(msg, st[1]) THEN <<st[1], log1>>
             ELSE <<IF vb THEN st[1] ELSE msg, Append(log1, <<"info", msg>>)>>

RECURSIVE EmitItems(_, _, _)
EmitItems(items, st, vb) ==
    IF items = <<>> THEN st
    ELSE EmitItems(Tail(items), EmitItem(Head(items), st, vb), vb)

\* drainTrace returns to the poll loop: the deadline check and api.Job, the
\* Result call after "succeeded", or the final line after "failed"/"cancelled"
DrainDone(t, nl) ==
    LET left == [nl EXCEPT !.page = "none"]
    IN  CASE nl.drainRet = "poll" ->
                 IF DeadlinePassed(nl.late) THEN Expected /\ Fail(t)
                 ELSE Expected /\ Call(t, "job", left)
          [] nl.drainRet = "succeeded" -> Expected /\ Call(t, "result", left)
          [] OTHER -> Expected /\ Fail(t)

\* one api.JobTrace of drainTrace returns
TaskTraceReturn(t) ==
    /\ pc[t] = "trace"
    /\ \/ \* trErr != nil
          /\ ctx # "active" \/ fetchLeft[t] > 0
          /\ fetchLeft' = [fetchLeft EXCEPT ![t] = IF ctx = "active" THEN @ - 1 ELSE @]
          /\ bursts' = [bursts EXCEPT ![t] = IF loc[t].inBurst THEN @ ELSE @ + 1]
          /\ IF verbose
             THEN /\ log' = [log EXCEPT ![t] = Append(@, <<"event", "worker_trace_error">>)]
                  /\ DrainDone(t, [loc[t] EXCEPT !.inBurst = TRUE])
             ELSE IF ShouldWarn(verbose, loc[t].traceWarned)
             THEN /\ log' = [log EXCEPT ![t] = Append(@, <<"info", WarnLine>>)]
                  /\ DrainDone(t, [loc[t] EXCEPT !.inBurst = TRUE, !.traceWarned = TRUE])
             ELSE /\ UNCHANGED log
                  /\ DrainDone(t, [loc[t] EXCEPT !.inBurst = TRUE])
       \/ \* a page
          /\ MaySucceed(t)
          /\ \E page \in (IF fetchLeft[t] > 0 THEN Pages ELSE {}) \cup {EmptyPage(t)} :
               LET items == page[1]
                   hasMore == page[2]
                   st == EmitItems(items, <<loc[t].lastTraceLine, log[t]>>, verbose)
                   again == FetchAgain(items, hasMore, loc[t].i)
                   nl == [loc[t] EXCEPT !.inBurst = FALSE, !.traceWarned = FALSE,
                                        !.traceOffset = page[3],
                                        !.lastTraceLine = st[1],
                                        !.page = PageKind(items, hasMore)]
               IN  /\ fetchLeft' = [fetchLeft EXCEPT ![t] =
                                      IF page = EmptyPage(t) THEN @ ELSE @ - 1]
                   /\ log' = [log EXCEPT ![t] = st[2]]
                   /\ UNCHANGED bursts
                   /\ IF again
                      THEN Expected /\ Call(t, "trace", [nl EXCEPT !.i = @ + 1])
                      ELSE DrainDone(t, nl)
    /\ UNCHANGED <<ctxVars, libVars, mainVars, registry, pollLeft, disk, watcherPc, helperVars>>

ResultWithoutDrain(t, status) ==
    Call(t, IF status = "succeeded" THEN "result" ELSE "trace",
         [loc[t] EXCEPT !.drainRet = status, !.i = 0])

\* a terminal status was read: drainTrace() comes first, whatever the status
AfterStatus(t, status) ==
    Call(t, "trace", [loc[t] EXCEPT !.drainRet = status, !.i = 0])

\* api.Job returns: an error, a terminal status, or any other status ("queued",
\* "running") and the sleep, after which the loop starts over with its drain.
\* A job with pollLeft Forever never reports a terminal status.
TaskJobReturn(t) ==
    /\ pc[t] = "job"
    /\ \/ /\ Failure(t)
          /\ UNCHANGED pollLeft
       \/ /\ MaySucceed(t) /\ pollLeft[t] # Forever /\ Expected
          /\ AfterStatus(t, "succeeded")
          /\ UNCHANGED pollLeft
       \/ /\ MaySucceed(t) /\ pollLeft[t] # Forever /\ Fault
          /\ \E status \in {"failed", "cancelled"} : AfterStatus(t, status)
          /\ UNCHANGED pollLeft
       \/ /\ MaySucceed(t) /\ pollLeft[t] # 0 /\ Expected
          /\ pollLeft' = [pollLeft EXCEPT ![t] = IF @ = Forever THEN @ ELSE @ - 1]
          /\ Call(t, "trace", [loc[t] EXCEPT !.drainRet = "poll", !.i = 0])
    /\ UNCHANGED <<ctxVars, libVars, mainVars, registry, log, fetchLeft, disk, bursts,
                   watcherPc, helperVars>>

\* time passes the deadline the poll loop set (line 408) while the task is in the
\* loop. For a job that reports a terminal status this is an answer other than the
\* expected one (a service that slow), and a deadline that passes during api.Job
\* is seen by the deadline test after the next drain only, so it is taken while that drain
\* is under way; for a job that never reports one, time just goes on, anywhere
\* between the drain that opens an iteration and the return of api.Job.
PollDeadlinePass(t) ==
    /\ pc[t] = "trace" \/ (pc[t] = "job" /\ pollLeft[t] = Forever)
    /\ loc[t].drainRet = "poll"
    /\ ~loc[t].late
    /\ IF pollLeft[t] = Forever THEN Expected ELSE Fault
    /\ loc' = [loc EXCEPT ![t].late = TRUE]
    /\ UNCHANGED <<ctxVars, libVars, mainVars, pc, outcome, final, cur, successCount,
                   failedCount, envVars, bursts, watcherPc, helperVars>>

\* ------------------------------------------------ result, naming, writing

\* api.Result returns
TaskResultReturn(t) ==
    /\ pc[t] = "result"
    /\ \/ Failure(t)
       \/ /\ MaySucceed(t) /\ Expected
          /\ Step(t, "name", [loc[t] EXCEPT !.resData = t])
    /\ UNCHANGED <<ctxVars, libVars, mainVars, envVars, bursts, watcherPc, helperVars>>

\* output.UniquePair: returns an id whose two stats found nothing (the id is drawn
\* at random and redrawn on a hit), or an error (MkdirAll, randomN, 200 hits)
TaskUniquePair(t) ==
    /\ pc[t] = "name"
    /\ \/ Failure(t)
       \/ /\ Expected
          /\ \E s \in FreeIds(disk) : Step(t, "writeEN", [loc[t] EXCEPT !.pair = s])
    /\ UNCHANGED <<ctxVars, libVars, mainVars, envVars, bursts, watcherPc, helperVars>>

\* os.WriteFile(path, data): the file holds data, or on an error is left as it
\* was or truncated/partly written
WriteFile(t, lang, next) ==
    LET p == <<loc[t].pair, lang>>
    IN  \/ /\ disk' = [disk EXCEPT ![p] = loc[t].resData]
           /\ Expected /\ next
        \/ /\ disk' \in {disk, [disk EXCEPT ![p] = Partial(t)]}
           /\ Failure(t)

\* os.WriteFile(enPath, resData.ENMarkdown)
TaskWriteEN(t) ==
    /\ pc[t] = "writeEN"
    /\ WriteFile(t, "en", Step(t, "writeCN", loc[t]))
    /\ UNCHANGED <<ctxVars, libVars, mainVars, registry, log, fetchLeft, pollLeft, bursts,
                   watcherPc, helperVars>>

\* os.WriteFile(cnPath, resData.CNMarkdown), then the EN converter is started
TaskWriteCN(t) ==
    /\ pc[t] = "writeCN"
    /\ WriteFile(t, "cn", Call(t, "convEN", loc[t]))
    /\ UNCHANGED <<ctxVars, libVars, mainVars, registry, log, fetchLeft, pollLeft, bursts,
                   watcherPc, helperVars>>

\* convertMarkdownToDocxFunc(ctx, mdPath, docxPath): exec.CommandContext ends the
\* converter when the context ends; a converter that ran to its end wrote the docx
Convert(t, lang, next) ==
    LET p == <<loc[t].pair, lang>>
    IN  \/ /\ MaySucceed(t)
           /\ disk' = [disk EXCEPT ![p] = loc[t].resData]
           /\ Expected /\ next
        \/ /\ disk' \in {disk, [disk EXCEPT ![p] = Partial(t)]}
           /\ Failure(t)

TaskConvertEN(t) ==
    /\ pc[t] = "convEN"
    /\ Convert(t, "en_docx", Call(t, "convCN", loc[t]))
    /\ UNCHANGED <<ctxVars, libVars, mainVars, registry, log, fetchLeft, pollLeft, bursts,
                   watcherPc, helperVars>>

TaskConvertCN(t) ==
    /\ pc[t] = "convCN"
    /\ Convert(t, "cn_docx", Succeed(t))
    /\ UNCHANGED <<ctxVars, libVars, mainVars, registry, log, fetchLeft, pollLeft, bursts,
                   watcherPc, helperVars>>

\* ------------------------------------------------- RunGen: the bootstrap

\* RunGen returns err before any task exists; sy is what the sync has done by then
BootReturn(err, sy) ==
    /\ mainPc' = "returned" /\ ret' = err /\ sync' = sy
    /\ UNCHANGED <<exitCode, k, semSize, verbose, timeoutLogged>>

BootGoto(next, sy) ==
    /\ mainPc' = next /\ sync' = sy
    /\ UNCHANGED <<ret, exitCode, k, semSize, verbose, timeoutLogged>>

\* a step of the sync failed: with a usable cache the fallback notice is logged and
\* the run goes on with st as it is, otherwise the run returns err
BootFallback(step, usable, err, sy) ==
    IF usable
    THEN BootGoto("discover", [sy EXCEPT !.failed = step, !.notice = step])
    ELSE BootReturn(err, [sy EXCEPT !.failed = step])

\* DefaultCacheDir, loadSYLKeyForRun, NewLogger, api.Exchange: any error is returned
\* as it is (an HTTP call on an ended context fails with the context's error)
BootExchange ==
    /\ mainPc = "exchange"
    /\ \/ ctx = "active" /\ Expected /\ BootGoto("resolve", sync)
       \/ ctx = "active" /\ OwnFault /\ BootReturn("other", sync)
       \/ ctx # "active" /\ Expected /\ BootReturn(CtxError(ctx), sync)
    /\ UNCHANGED <<ctxVars, libVars, cacheUsable, workerVars, envVars, bursts, watcherPc,
                   helperVars>>

\* rules.LoadState and api.ResolveRules: on an error the run goes on with a usable
\* cache and otherwise returns "规则中心不可达且首次运行无缓存" (the cause is not wrapped);
\* on an answer needDownload decides between the download and the cached rules
BootResolve ==
    /\ mainPc = "resolve"
    /\ \/ /\ ctx = "active" /\ Expected
          /\ \E upToDate \in BOOLEAN, same \in (IF sync.ver THEN BOOLEAN ELSE {FALSE}) :
               IF NeedDownload(upToDate, cacheUsable, same)
               THEN BootGoto("download", [sync EXCEPT !.same = same])
               ELSE BootGoto("discover", sync)
       \/ /\ Fault
          /\ BootFallback("resolve", cacheUsable, "other", sync)
    /\ UNCHANGED <<ctxVars, libVars, cacheUsable, workerVars, envVars, bursts, watcherPc,
                   helperVars>>

\* api.Download: an error is wrapped ("首次拉规则失败: %w") when there is no usable cache
BootDownload ==
    /\ mainPc = "download"
    /\ \/ /\ ctx = "active" /\ Expected
          /\ BootGoto("install", sync)
       \/ /\ Fault
          /\ BootFallback("download", cacheUsable,
                          IF ctx = "active" THEN "other" ELSE CtxError(ctx), sync)
    /\ UNCHANGED <<ctxVars, libVars, cacheUsable, workerVars, envVars, bursts, watcherPc,
                   helperVars>>

\* the rest of the sync after a download: the sha256 comparison, SaveArchive, the
\* signature check and SaveState. SaveArchive writes <cache>/<tenant>/<version>/
\* rules.tar.gz, which is st.ArchivePath when the version is the cached one, so
\* HasArchive(st.ArchivePath) holds from then on.
BootInstall ==
    /\ mainPc = "install"
    /\ \E got \in Shas, saved \in BOOLEAN, in \in VerifyInputs,
          stored \in {"ok", "untouched", "torn"} :
         LET afterSha == [sync EXCEPT !.trail = <<"sha">>,
                                      !.shaOk = (got = ManifestSHA)]
             afterArchive == [afterSha EXCEPT !.trail = <<"sha", "archive">>]
             afterVerify == [afterArchive EXCEPT !.trail = <<"sha", "archive", "verify">>,
                                                 !.sigOk = (in = GoodInput),
                                                 !.unverified = sync.ver /\ sync.same]
             afterState == [afterVerify EXCEPT !.trail = <<"sha", "archive", "verify", "state">>,
                                               !.unverified = FALSE]
             hasArchive == cacheUsable \/ (sync.ver /\ sync.same)
         IN  IF ~ShaMatches(got, ManifestSHA)
             THEN /\ OwnFault
                  /\ BootFallback("sha", cacheUsable, "other", afterSha)
                  /\ UNCHANGED cacheUsable
             ELSE IF ~saved
             THEN /\ OwnFault
                  /\ BootReturn("other", [afterArchive EXCEPT !.failed = "archive"])
                  /\ UNCHANGED cacheUsable
             ELSE IF VerifyArchive(in) # "ok"
             THEN /\ OwnFault
                  /\ cacheUsable' = hasArchive
                  /\ BootFallback("sig", hasArchive, "other", afterVerify)
             ELSE IF stored # "ok"
             THEN /\ OwnFault
                  /\ cacheUsable' = hasArchive
                  /\ BootReturn("other", [afterState EXCEPT !.failed = "state",
                                            !.json = IF stored = "torn" THEN "torn" ELSE @])
             ELSE /\ Expected
                  /\ cacheUsable' = TRUE
                  /\ BootGoto("discover", [afterState EXCEPT !.json = "new", !.ver = TRUE])
    /\ UNCHANGED <<ctxVars, libVars, workerVars, envVars, bursts, watcherPc, helperVars>>

\* "本地规则不可用", LoadInputMarkerFromArchive, input.Discover, buildGenerateTasks;
\* then the watcher goroutine and one worker goroutine per task are started; what
\* the sync block held of the resolve answer and of the download is gone
BootDiscover ==
    /\ mainPc = "discover"
    /\ \/ /\ OwnFault /\ BootReturn("other", sync)
          /\ UNCHANGED <<pc, watcherPc>>
       \/ /\ cacheUsable /\ Expected
          /\ \E n \in 1..RunTasks :
               /\ k' = n
               /\ pc' = [t \in Tasks |-> IF t <= n THEN "acquire" ELSE "unbuilt"]
          /\ mainPc' = "wait" /\ watcherPc' = "waiting"
          /\ sync' = [sync EXCEPT !.same = FALSE, !.trail = <<>>,
                                  !.shaOk = FALSE, !.sigOk = FALSE]
          /\ UNCHANGED <<ret, exitCode, semSize, verbose, timeoutLogged>>
    /\ UNCHANGED <<ctxVars, libVars, cacheUsable, loc, outcome, final, cur, successCount,
                   failedCount, envVars, bursts, helperVars>>

\* ------------------------------------------- RunGen: cancelSubmittedTasks

\* the caller ("watcher" or "main") is at its call of cancelSubmittedTasks
AtCall(who) == IF who = "watcher" THEN watcherPc = "call" ELSE mainPc = "sweep"

\* the caller's position while it runs the body, and after the call returned
Moved(who, inBody) ==
    IF who = "watcher"
    THEN /\ watcherPc' = (IF inBody THEN "body" ELSE "done")
         /\ UNCHANGED mainVars
    ELSE /\ mainPc' = (IF inBody THEN "body" ELSE "select")
         /\ UNCHANGED <<ret, exitCode, k, semSize, cacheUsable, verbose, timeoutLogged, sync,
                        watcherPc>>

\* <-ctx.Done() in the watcher goroutine; it calls the helper only on Canceled
WatcherWake ==
    /\ watcherPc = "waiting" /\ ctx # "active"
    /\ watcherPc' = (IF ctx = "canceled" THEN "call" ELSE "done")
    /\ UNCHANGED <<ctxVars, libVars, mainVars, workerVars, envVars, bursts, faults,
                   helperVars>>

\* cancelOnce.Do runs the body for this caller: the snapshot; with no job the body
\* returns at once, otherwise one goroutine per job is started
HelperBegin(who) ==
    /\ AtCall(who) /\ OnceMayRun(once)
    /\ bodyRuns' = bodyRuns + 1
    /\ jobs' = Snapshot(registry)
    /\ runner' = who
    /\ IF Snapshot(registry) = {}
       THEN /\ once' = "done" /\ cancelDone' = TRUE
            /\ Moved(who, FALSE)
            /\ UNCHANGED cpc
       ELSE /\ once' = "running"
            /\ cpc' = [j \in JobIds |-> IF j \in Snapshot(registry) THEN "acquire" ELSE cpc[j]]
            /\ Moved(who, TRUE)
            /\ UNCHANGED cancelDone
    /\ UNCHANGED <<ctxVars, libVars, workerVars, envVars, bursts, faults,
                   cancelCur, cancelCtxExpired, cancelCalls>>

\* cancelOnce.Do returns without running the body, once the body has finished
HelperSkip(who) ==
    /\ AtCall(who) /\ ~OnceMayRun(once) /\ once = "done"
    /\ Moved(who, FALSE)
    /\ UNCHANGED <<ctxVars, libVars, workerVars, envVars, bursts, faults, helperVars>>

\* the 20 s deadline of cancelCtx passes
CancelCtxExpire ==
    /\ once = "running" /\ ~cancelCtxExpired
    /\ cancelCtxExpired' = TRUE
    /\ UNCHANGED <<ctxVars, libVars, mainVars, workerVars, envVars, bursts, faults,
                   watcherPc, once, runner, cancelDone, jobs, cpc, cancelCur,
                   cancelCalls, bodyRuns>>

\* a cancel goroutine: cancelSem.Acquire(cancelCtx, 1), then api.CancelJob is
\* issued, unless cancelCtx has expired before
CancelAcquire(j) ==
    /\ cpc[j] = "acquire"
    /\ \/ /\ CanAcquire(cancelCur, cancelPermits) /\ ~CancelCtxDone(ctx, cancelCtxExpired)
          /\ cancelCur' = cancelCur + 1
          /\ cancelCalls' = [cancelCalls EXCEPT ![j] = @ + 1]
          /\ cpc' = [cpc EXCEPT ![j] = "calling"]
       \/ /\ CancelCtxDone(ctx, cancelCtxExpired)
          /\ cpc' = [cpc EXCEPT ![j] = "done"]
          /\ UNCHANGED <<cancelCur, cancelCalls>>
    /\ UNCHANGED <<ctxVars, libVars, mainVars, workerVars, envVars, bursts, faults,
                   watcherPc, once, runner, cancelDone, jobs, cancelCtxExpired, bodyRuns>>

\* api.CancelJob returns; the deferred cancelSem.Release(1)
CancelJobReturn(j) ==
    /\ cpc[j] = "calling"
    /\ cancelCur' = cancelCur - 1
    /\ cpc' = [cpc EXCEPT ![j] = "done"]
    /\ UNCHANGED <<ctxVars, libVars, mainVars, workerVars, envVars, bursts, faults,
                   watcherPc, once, runner, cancelDone, jobs, cancelCtxExpired,
                   cancelCalls, bodyRuns>>

\* cwg.Wait() returns, the summary is logged, the deferred close(cancelDone)
HelperEnd ==
    /\ once = "running"
    /\ \A j \in jobs : cpc[j] = "done"
    /\ once' = "done" /\ cancelDone' = TRUE
    /\ Moved(runner, FALSE)
    /\ UNCHANGED <<ctxVars, libVars, workerVars, envVars, bursts, faults,
                   runner, jobs, cpc, cancelCur, cancelCtxExpired, cancelCalls, bodyRuns>>

\* ------------------------------------------------ RunGen: after wg.Wait()

\* wg.Wait() returns; on a cancelled context the sweep follows, otherwise the
\* summary line and the return value
MainWait ==
    /\ mainPc = "wait"
    /\ \A t \in Built : pc[t] = "done"
    /\ IF ctx = "canceled"
       THEN /\ mainPc' = "sweep"
            /\ UNCHANGED ret
       ELSE /\ mainPc' = "returned"
            /\ ret' = RunGenResult(ctx, failedCount)
    /\ UNCHANGED <<ctxVars, libVars, exitCode, k, semSize, cacheUsable, verbose, timeoutLogged, sync,
                   workerVars, envVars, bursts, faults, watcherPc, helperVars>>

\* select { case <-cancelDone: case <-time.After(25 s): log }; return context.Canceled
MainSelect ==
    /\ mainPc = "select"
    /\ timeoutLogged' = ~cancelDone
    /\ mainPc' = "returned"
    /\ ret' = RunGenResult(ctx, failedCount)
    /\ UNCHANGED <<ctxVars, libVars, exitCode, k, semSize, cacheUsable, verbose, sync,
                   workerVars, envVars, bursts, faults, watcherPc, helperVars>>

\* cmd.Execute: the exit code of the process
Execute ==
    /\ mainPc = "returned"
    /\ mainPc' = "exited"
    /\ exitCode' = ExitCodeOf(ret)
    /\ UNCHANGED <<ctxVars, libVars, ret, k, semSize, cacheUsable, verbose, timeoutLogged, sync,
                   workerVars, envVars, bursts, faults, watcherPc, helperVars>>

\* ------------------------------------- VerifyArchiveSignatureWithBundledKeyOpenSSL

\* a call with any of the inputs
InitVerify ==
    /\ InitRunning(0, SerialCap)
    /\ vfy \in [in : VerifyInputs, res : {"none"}]
    /\ bk = BkIdle /\ fs = FsIdle /\ rt = RtIdle /\ em = EmIdle /\ fn = FnIdle /\ lg = LgIdle

VerifyCall ==
    /\ vfy.res = "none"
    /\ vfy' = [vfy EXCEPT !.res = VerifyArchive(vfy.in)]
    /\ UNCHANGED <<ctxVars, mainVars, workerVars, envVars, bursts, faults, watcherPc,
                   helperVars, bk, fs, rt, em, fn, lg>>

\* ------------------------------------------------------------ retryBackoff

RECURSIVE Pow2(_)
\* 1 << n
Pow2(n) == IF n <= 0 THEN 1 ELSE 2 * Pow2(n - 1)

BackoffNoCeiling(attempt) ==
    IF attempt <= 0 THEN retryBackoffBase ELSE retryBackoffBase * Pow2(attempt - 1)

\* retryBackoff, in milliseconds (the attempt numbers here stay far below the
\* ones at which the 64-bit product wraps)
retryBackoff(attempt) ==
    IF attempt <= 0 THEN retryBackoffBase
    ELSE LET d == retryBackoffBase * Pow2(attempt - 1)
         IN  IF d > retryBackoffMax THEN retryBackoffMax ELSE d

\* two calls with any attempt numbers
InitBackoff ==
    /\ InitRunning(0, SerialCap)
    /\ bk \in [a : (0 - 1)..MaxAttempt, b : (0 - 1)..MaxAttempt, ra : {-1}, rb : {-1}]
    /\ vfy = VfyIdle /\ fs = FsIdle /\ rt = RtIdle /\ em = EmIdle /\ fn = FnIdle /\ lg = LgIdle

BackoffCall ==
    /\ bk.ra = -1
    /\ bk' = [bk EXCEPT !.ra = retryBackoff(bk.a), !.rb = retryBackoff(bk.b)]
    /\ UNCHANGED <<ctxVars, mainVars, workerVars, envVars, bursts, faults, watcherPc,
                   helperVars, vfy, fs, rt, em, fn, lg>>

\* --------------------------------------------- rules.SaveState and LoadState

\* LoadState: the zero state for a missing file, an error for a file that is not
\* one whole JSON document
LoadState(content) ==
    CASE content = "absent" -> "zero"
      [] content = "old" -> "old"
      [] content = "new" -> "new"
      [] OTHER -> "error"

\* SaveState is called for one tenant; each tenant's current.json is missing or
\* holds an earlier state
InitSave ==
    /\ InitRunning(0, SerialCap)
    /\ \E target \in Tenants, files \in [Tenants -> {"absent", "old"}] :
         fs = [target |-> target, prev |-> files, files |-> files, pc |-> "start",
               crashed |-> FALSE, loaded |-> [t \in Tenants |-> "none"]]
    /\ vfy = VfyIdle /\ bk = BkIdle /\ rt = RtIdle /\ em = EmIdle /\ fn = FnIdle /\ lg = LgIdle

SaveFrame ==
    UNCHANGED <<ctxVars, mainVars, workerVars, envVars, bursts, faults, watcherPc,
                helperVars, vfy, bk, rt, em, fn, lg>>

\* tenantDir, os.MkdirAll, json.MarshalIndent, stateFile
SavePrepare ==
    /\ fs.pc = "start"
    /\ fs' \in {[fs EXCEPT !.pc = "open"], [fs EXCEPT !.pc = "returned"]}
    /\ SaveFrame

\* os.WriteFile: OpenFile(O_WRONLY|O_CREATE|O_TRUNC) leaves the file empty
SaveOpen ==
    /\ fs.pc = "open"
    /\ fs' \in {[fs EXCEPT !.pc = "write", !.files[fs.target] = "empty"],
                [fs EXCEPT !.pc = "returned"]}
    /\ SaveFrame

\* os.WriteFile: Write and Close; on an error the file stays empty or cut short
SaveWrite ==
    /\ fs.pc = "write"
    /\ \E c \in {"new", "empty", "partial"} :
         fs' = [fs EXCEPT !.pc = "returned", !.files[fs.target] = c]
    /\ SaveFrame

\* the process stops (kill, power loss) at any point of SaveState; a write that
\* was under way may have put down a part of the bytes
SaveCrash ==
    /\ fs.pc \in {"start", "open", "write"}
    /\ \E c \in (IF fs.pc = "write" THEN {"empty", "partial"} ELSE {fs.files[fs.target]}) :
         fs' = [fs EXCEPT !.pc = "stopped", !.crashed = TRUE, !.files[fs.target] = c]
    /\ SaveFrame

\* a later LoadState for tenant t
LoadAfter(t) ==
    /\ fs.pc \in {"returned", "stopped"}
    /\ fs.loaded[t] = "none"
    /\ fs' = [fs EXCEPT !.loaded[t] = LoadState(fs.files[t])]
    /\ SaveFrame

\* ------------------------------------ doJSONWithRetry and downloadWithRetry

Status(code) == [kind |-> "status", code |-> code, name |-> ""]
Failed(name) == [kind |-> "err", code |-> 0, name |-> name]

\* What one attempt (doJSONOnce / downloadOnce) can answer on a live connection:
\* an HTTP status, or an error of the transport (io.EOF, a net.Error timeout,
\* "connection refused", "no such host"); doJSONOnce also fails on a 2xx body
\* that is not JSON ("parse").
LiveAnswers(kind) ==
    {Status(c) : c \in {200, 400, 404, 408, 425, 429, 500, 501, 502, 503, 504}}
        \cup {Failed(n) : n \in {"eof", "timeout", "refused", "no_host"}}
        \cup (IF kind = "json" THEN {Failed("parse")} ELSE {})

\* what http.Client.Do returns once the request's context has ended
CtxAnswer(c) == Failed(IF c = "canceled" THEN "ctx_canceled" ELSE "ctx_deadline")

\* resp.StatusCode/100 == 2 and, for doJSONOnce, a body that parses
IsSuccess(ans) == ans.kind = "status" /\ ans.code \in 200..299

RetryEveryStatus(ans) == ans.kind = "status" \/ ans.name \in {"eof", "timeout", "refused"}
\* isRetryableRequestErr: the status codes of the switch; io.EOF; a net.Error
\* with Timeout() (a deadline that passed is one); the listed substrings
IsRetryable(ans) ==
    IF ans.kind = "status"
    THEN ans.code \in {408, 425, 429, 500, 502, 503, 504}
    ELSE ans.name \in {"eof", "timeout", "refused", "ctx_deadline"}

TimerAlwaysWins(endedAtWait, endedNow) == {"timer"}
\* select { case <-ctx.Done(): ...; case <-timer.C: }: a context that had ended
\* when the wait began wins; if it ends while the timer runs out either case can
\* be the one taken
BackoffYields(endedAtWait, endedNow) ==
    IF endedAtWait THEN {"ctx"}
    ELSE IF endedNow THEN {"ctx", "timer"}
    ELSE {"timer"}

\* a call by one of the API methods with its budget, on a live context
InitRetry ==
    /\ InitRunning(0, SerialCap)
    /\ \E call \in {<<"json", defaultMaxAttempts>>, <<"json", exchangeMaxAttempts>>,
                    <<"download", defaultMaxAttempts>>} :
         rt = [RtIdle EXCEPT !.kind = call[1], !.max = call[2], !.pc = "build",
                             !.attempt = 1]
    /\ vfy = VfyIdle /\ bk = BkIdle /\ fs = FsIdle /\ em = EmIdle /\ fn = FnIdle /\ lg = LgIdle

RetryFrame ==
    UNCHANGED <<ctxVars, mainVars, workerVars, envVars, bursts, faults, watcherPc,
                helperVars, vfy, bk, fs, em, fn, lg>>

\* req, err := buildReq(): the factory is called anew for the attempt
RetryBuild ==
    /\ rt.pc = "build"
    /\ \/ rt' = [rt EXCEPT !.pc = "call", !.live = (ctx = "active"),
                           !.trace = Append(@, <<"build", rt.attempt>>)]
       \/ rt' = [rt EXCEPT !.pc = "done", !.res = "build"]
    /\ RetryFrame

\* doJSONOnce / downloadOnce returns: success, an error returned as it is, or a
\* retryable error within the budget, after which the "retry" event is emitted
\* and the backoff timer started
RetryCallReturn ==
    /\ rt.pc = "call"
    /\ \E ans \in (IF rt.live THEN LiveAnswers(rt.kind) ELSE {})
                    \cup (IF ctx # "active" THEN {CtxAnswer(ctx)} ELSE {}) :
         LET tried == [rt EXCEPT !.ans = ans,
                                 !.trace = Append(@, <<"try", rt.attempt>>)]
         IN  IF IsSuccess(ans)
             THEN rt' = [tried EXCEPT !.pc = "done", !.res = "nil"]
             ELSE IF ~IsRetryable(ans) \/ rt.attempt >= rt.max
             THEN rt' = [tried EXCEPT !.pc = "done", !.res = "answer"]
             ELSE rt' = [tried EXCEPT !.pc = "backoff",
                                      !.endedAtWait = (ctx # "active"),
                                      !.trace = Append(@, <<"retry", rt.attempt, rt.attempt + 1,
                                                            retryBackoff(rt.attempt)>>)]
    /\ RetryFrame

\* the select of the backoff wait
RetryBackoffEnd ==
    /\ rt.pc = "backoff"
    /\ \E out \in BackoffYields(rt.endedAtWait, ctx # "active") :
         IF out = "ctx"
         THEN rt' = [rt EXCEPT !.pc = "done", !.res = CtxError(ctx)]
         ELSE rt' = [rt EXCEPT !.pc = "build", !.attempt = @ + 1]
    /\ RetryFrame

\* ------------------------------------------ drainTrace: the loop over the items

\* the loop "for _, item := range tr.Items" run on any page of up to EmitLen items,
\* in either log mode, with any lastTraceLine
InitEmit ==
    /\ InitRunning(0, SerialCap)
    /\ em \in [items : UNION {[1..n -> ItemKinds] : n \in 0..EmitLen}, vb : BOOLEAN,
               last : Msgs \cup {""}, pc : {"start"}, out : {<<>>}]
    /\ vfy = VfyIdle /\ bk = BkIdle /\ fs = FsIdle /\ rt = RtIdle /\ fn = FnIdle /\ lg = LgIdle

\* the loop runs: out is what it logged (em.last stays the lastTraceLine it began with)
EmitCall ==
    /\ em.pc = "start"
    /\ em' = [em EXCEPT !.pc = "done",
                        !.out = EmitItems(em.items, <<em.last, <<>>>>, em.vb)[2]]
    /\ UNCHANGED <<ctxVars, mainVars, workerVars, envVars, bursts, faults, watcherPc,
                   helperVars, vfy, bk, fs, rt, fn, lg>>

\* ------------------------------------- the cancel helper with a full registry

\* RunGen after wg.Wait() of a cancelled run of CancelJobs tasks: every worker has
\* returned (their goroutines and locals are gone, each counted as failed), each
\* had registered its job, the watcher goroutine has not run yet
InitCancel ==
    /\ verbose = FALSE /\ cacheUsable = TRUE /\ sync = SyncStart(TRUE, TRUE)
    /\ LibIdle
    /\ mainPc = "sweep" /\ k = CancelJobs /\ semSize = SerialCap
    /\ fetchLeft = [t \in Tasks |-> 0] /\ pollLeft = [t \in Tasks |-> 0]
    /\ pc = [t \in Tasks |-> "done"] /\ loc = [t \in Tasks |-> InitLoc]
    /\ outcome = [t \in Tasks |-> "failed"]
    /\ final = [t \in Tasks |-> "ctx_cancelled"]
    /\ cur = 0 /\ successCount = 0 /\ failedCount = CancelJobs
    /\ registry = [j \in 1..CancelJobs |-> j]
    /\ log = [t \in Tasks |-> <<>>] /\ bursts = [t \in Tasks |-> 0]
    /\ faults = 0 /\ disk = [p \in Paths |-> Absent]
    /\ ctx = "canceled" /\ queuedAtEnd = [t \in Tasks |-> FALSE]
    /\ ret = "none" /\ exitCode = -1 /\ timeoutLogged = FALSE
    /\ InitHelper("waiting")

\* ------------------------------------------- jobs that may never finish

\* RunGen after a successful bootstrap with LiveTasks tasks and one permit; the job
\* of a task reports a terminal status after at most MaxPolls other answers, or
\* never reports one
InitLive ==
    /\ verbose = FALSE /\ cacheUsable = TRUE /\ sync = SyncStart(TRUE, TRUE)
    /\ LibIdle
    /\ mainPc = "wait" /\ k = LiveTasks /\ semSize = SerialCap
    /\ fetchLeft = [t \in Tasks |-> 0]
    /\ pollLeft \in [Tasks -> (0..MaxPolls) \cup {Forever}]
    /\ \A t \in Tasks : t > LiveTasks => pollLeft[t] = 0
    /\ InitTasks(LiveTasks) /\ InitHelper("waiting")

\* ------------------------------------------------ pure helpers of the run

\* requirement files as input.Discover returns them: distinct paths, each a
\* directory and a base name (a string of characters), two of them with one base name
FilePaths == {<<"x", <<"a">> >>, <<"y", <<"a">> >>, <<"x", <<"b">> >>,
              <<"x", <<"a", "#", "1">> >>}
FileLists == {fl \in UNION {[1..n -> FilePaths] : n \in 1..MaxFiles} :
                  \A m, n \in DOMAIN fl : m # n => fl[m] # fl[n]}

LabelAlwaysFull(fileCount, num, path, index) ==
    path[2] \o <<"#">> \o <<(<<"1", "2", "3", "4", "5", "6", "7", "8", "9">>)[index]>>
\* taskDisplayLabel: the label as a string of characters; filepath.Base(path) is the
\* second part of a path, "%d" of an index below ten one digit
taskDisplayLabel(fileCount, num, path, index) ==
    LET base == path[2]
        digit == (<<"1", "2", "3", "4", "5", "6", "7", "8", "9">>)[index]
    IN  CASE fileCount > 1 /\ num > 1 -> base \o <<"#">> \o <<digit>>
          [] fileCount > 1 -> base
          [] num > 1 -> <<"#", digit>>
          [] OTHER -> <<>>

\* buildGenerateTasks: for each file in order, for i = 1..num, one task
buildGenerateTasks(files, num) ==
    [n \in 1..(Len(files) * num) |->
        LET f == ((n - 1) \div num) + 1
            i == ((n - 1) % num) + 1
        IN  [file |-> files[f], index |-> i,
             label |-> taskDisplayLabel(Len(files), num, files[f], i)]]

RenderMessageOnly(item) ==
    IF item.msg \in {"", " "} THEN <<>> ELSE <<"message", "hi">>
\* renderWorkerTraceLine and genericWorkerTraceLine. An event name is the sequence
\* of its words between underscores; payload.message is "" (absent), " " (blank) or
\* " hi "; step and error are payload.step and payload.error. The result is <<>> (the empty line) or
\* the format chosen with what it is filled with: <<"message", trimmed text>>,
\* <<"queued", job id>>, <<"event", name>> for the other lines of the switch on
\* item.Event, and for the generic lines "rule_fail" (规则校验失败), "repair_done"
\* (修复完成), "step_done" (完成), <<"failed", error>> and <<"error", error>>.
renderWorkerTraceLine(item) ==
    LET ev == item.event
        last == ev[Len(ev)]
        Contains(a, b) == \E n \in 1..(Len(ev) - 1) : ev[n] = a /\ ev[n + 1] = b
        EndsIn(a, b) == Len(ev) > 2 /\ ev[Len(ev) - 1] = a /\ last = b
        trimmed == IF item.msg = " hi " THEN "hi" ELSE ""
        generic ==
            CASE Len(ev) > 1 /\ last = "start" /\ item.step # "" -> <<>>
              [] Contains("repair", "needed") -> <<"rule_fail">>
              [] Contains("validate", "fail") -> <<"rule_fail">>
              [] EndsIn("repair", "ok") -> <<"repair_done">>
              [] Len(ev) > 1 /\ last = "ok" /\ item.step # "" -> <<"step_done">>
              [] Len(ev) > 1 /\ last = "failed" -> <<"failed", item.err>>
              [] item.err # "" -> <<"error", item.err>>
              [] OTHER -> <<>>
    IN  IF item.source = "api" /\ ev \in {<<"job", "status", "read">>,
                                          <<"job", "result", "not", "ready">>}
        THEN <<>>
        ELSE IF trimmed # "" THEN <<"message", trimmed>>
        ELSE IF ev = <<"generate", "queued">> THEN <<"queued", item.jobID>>
        ELSE IF ev \in {<<"api", "request">>, <<"api", "ok">>, <<"api", "retry">>,
                        <<"api", "failed">>}
        THEN <<>>
        ELSE IF ev \in {<<"rules", "loaded">>, <<"section", "generate", "ok">>,
                        <<"section", "sentence", "step", "ok">>,
                        <<"section", "sentence", "step", "validate", "fail">>,
                        <<"job", "retry", "scheduled">>, <<"job", "succeeded">>,
                        <<"job", "failed">>, <<"job", "cancel", "requested">>,
                        <<"job", "cancelled">>, <<"generation", "ok">>}
        THEN <<"event", ev>>
        ELSE generic

RangeByRuleMin(actual, ruleMin, ruleMax, tolMin, tolMax) ==
    IF actual < ruleMin
    THEN [form |-> "low", shown |-> <<actual, tolMin, ruleMin, ruleMax, tolMax>>]
    ELSE [form |-> "high", shown |-> <<tolMin, ruleMin, ruleMax, tolMax, actual>>]
\* formatLengthConstraintRange on five strings of digits (the fields the patterns
\* capture with \d+), each given as the number it writes; strconv.Atoi fails on a
\* number above MaxInt. The result is the format used and the fields in the
\* order they are printed: "low" is "%d < [%d[%d,%d]%d] 低于下限", "high"
\* "[%d[%d,%d]%d] < %d 高于上限", "unparsed" "%s ? [%s[%s,%s]%s]".
formatLengthConstraintRange(actual, ruleMin, ruleMax, tolMin, tolMax) ==
    IF \E v \in {actual, ruleMin, ruleMax, tolMin, tolMax} : v > MaxInt
    THEN [form |-> "unparsed", shown |-> <<actual, tolMin, ruleMin, ruleMax, tolMax>>]
    ELSE IF actual < tolMin
    THEN [form |-> "low", shown |-> <<actual, tolMin, ruleMin, ruleMax, tolMax>>]
    ELSE [form |-> "high", shown |-> <<tolMin, ruleMin, ruleMax, tolMax, actual>>]

\* filepath.Join of path elements below the cache root, each a sequence of
\* segments: "." is dropped and ".." removes the segment before it (filepath.Clean)
RECURSIVE JoinClean(_, _)
JoinClean(done, rest) ==
    IF rest = <<>> THEN done
    ELSE IF Head(rest) = "." THEN JoinClean(done, Tail(rest))
    ELSE IF Head(rest) = ".." /\ done # <<>> /\ done[Len(done)] # ".."
    THEN JoinClean(SubSeq(done, 1, Len(done) - 1), Tail(rest))
    ELSE JoinClean(Append(done, Head(rest)), Tail(rest))

\* tenantDir with sanitizeTenantID: the directory of a tenant id of one segment
\* below the cache root, or "error" for a blank id and for one that contains ".."
tenantDir(id) == IF id \in {"", ".."} THEN "error" ELSE JoinClean(<<>>, <<id>>)

\* SaveArchive: the files below the cache root after the call; version is a
\* sequence of segments (it is joined as given)
SaveArchive(files, id, version, data) ==
    IF tenantDir(id) = "error" THEN files
    ELSE LET p == JoinClean(tenantDir(id), version \o <<"rules.tar.gz">>)
         IN  [q \in DOMAIN files \cup {p} |-> IF q = p THEN data ELSE files[q]]

\* SaveState: writes current.json of the tenant
SaveState(files, id, st) ==
    IF tenantDir(id) = "error" THEN files
    ELSE LET p == JoinClean(tenantDir(id), <<"current.json">>)
         IN  [q \in DOMAIN files \cup {p} |-> IF q = p THEN st ELSE files[q]]

\* Clear: os.RemoveAll of the tenant's directory
Clear(files, id) ==
    IF tenantDir(id) = "error" THEN files
    ELSE LET dir == tenantDir(id)
             Below(q) == Len(q) >= Len(dir) /\ SubSeq(q, 1, Len(dir)) = dir
         IN  [q \in {r \in DOMAIN files : ~Below(r)} |-> files[q]]

\* a helper is about to be called on inputs of its domain
InitPure ==
    /\ InitRunning(0, SerialCap)
    /\ vfy = VfyIdle /\ bk = BkIdle /\ fs = FsIdle /\ rt = RtIdle /\ em = EmIdle
    /\ lg = LgIdle
    /\ \/ fn \in [op : {"tasks"}, pc : {"start"}, out : {<<>>},
                   files : FileLists, num : 1..MaxNum]
       \/ fn \in [op : {"render"}, pc : {"start"}, out : {<<>>},
                   item : [source : {"api", "worker"}, jobID : {"j"},
                           msg : {"", " ", " hi "}, step : {"", "s"}, err : {"", "e"},
                           event : {<<"job", "status", "read">>,
                                    <<"job", "result", "not", "ready">>,
                                    <<"generate", "queued">>, <<"api", "failed">>,
                                    <<"job", "failed">>, <<"section", "generate", "ok">>,
                                    <<"section", "sentence", "step", "validate", "fail">>,
                                    <<"x", "start">>, <<"x", "validate", "fail", "start">>,
                                    <<"x", "repair", "needed">>,
                                    <<"x", "repair", "needed", "failed">>,
                                    <<"x", "validate", "fail">>, <<"x", "repair", "ok">>,
                                    <<"x", "ok">>, <<"x", "failed">>, <<"x", "done">>}]]
       \/ \E mine \in BOOLEAN :
            fn \in [op : {"LoadState", "SaveState", "SaveArchive", "Clear"},
                    pc : {"start"}, out : {<<>>},
                    id : {"a", ".", "..", ""},
                    version : {<<"v1">>, <<"v2">>, <<"..", "b", "v1">>},
                    data : {"new"},
                    files : {[q \in {<<"b", "current.json">>,
                                     <<"b", "v1", "rules.tar.gz">>} \cup
                                    (IF mine THEN {<<"a", "current.json">>,
                                                   <<"a", "v1", "rules.tar.gz">>}
                                     ELSE {}) |-> "old"]}]
       \/ fn \in [op : {"range"}, pc : {"start"}, out : {<<>>},
                   actual : 0..MaxField, ruleMin : 0..MaxField, ruleMax : 0..MaxField,
                   tolMin : 0..MaxField, tolMax : 0..MaxField]

\* the helper returns
PureCall ==
    /\ fn.pc = "start"
    /\ fn' = [fn EXCEPT !.pc = "done",
                        !.out = CASE fn.op = "tasks" ->
                                         buildGenerateTasks(fn.files, fn.num)
                                  [] fn.op = "render" ->
                                         renderWorkerTraceLine(fn.item)
                                  [] fn.op = "LoadState" -> fn.files
                                  [] fn.op = "SaveState" ->
                                         SaveState(fn.files, fn.id, fn.data)
                                  [] fn.op = "SaveArchive" ->
                                         SaveArchive(fn.files, fn.id, fn.version,
                                                     fn.data)
                                  [] fn.op = "Clear" -> Clear(fn.files, fn.id)
                                  [] fn.op = "range" ->
                                         formatLengthConstraintRange(fn.actual,
                                             fn.ruleMin, fn.ruleMax, fn.tolMin,
                                             fn.tolMax)]
    /\ UNCHANGED <<ctxVars, mainVars, workerVars, envVars, bursts, faults, watcherPc,
                   helperVars, vfy, bk, fs, rt, em, lg>>

\* ------------------------------------------------------------- the Logger

\* a Logger from NewLogger, verbose or not, with or without a log file, and
\* LogCallers goroutines about to call it; mu = 0 is the unlocked mutex
InitLog ==
    /\ InitRunning(0, SerialCap)
    /\ vfy = VfyIdle /\ bk = BkIdle /\ fs = FsIdle /\ rt = RtIdle /\ em = EmIdle
    /\ fn = FnIdle
    /\ lg \in [vb : BOOLEAN, withFile : BOOLEAN, mu : {0}, stdout : {<<>>}, file : {<<>>},
               pcs : {[c \in 1..LogCallers |-> "idle"]},
               line : {[c \in 1..LogCallers |-> <<>>]},
               made : {[c \in 1..LogCallers |-> <<>>]}]

\* a goroutine calls Info(msg) or Event(name, fields); msg may carry ANSI colour.
\* Not verbose: Event returns at once, Info goes to writeLine(msg). Verbose: both
\* go to writeLine with the JSON of the record (Info as the event "info").
LogCall(c) ==
    /\ lg.pcs[c] = "idle" /\ Len(lg.made[c]) < LogCalls
    /\ \E op \in {"info", "event"}, ansi \in BOOLEAN :
         LET n == Len(lg.made[c]) + 1
             made == [lg.made EXCEPT ![c] = Append(@, op)]
         IN  IF op = "event" /\ ~lg.vb
             THEN lg' = [lg EXCEPT !.made = made]
             ELSE lg' = [lg EXCEPT !.made = made, !.pcs[c] = "lock",
                                   !.line[c] = [who |-> c, n |-> n, op |-> op,
                                                json |-> lg.vb, ansi |-> ansi]]
    /\ UNCHANGED <<ctxVars, mainVars, workerVars, envVars, bursts, faults, watcherPc,
                   helperVars, vfy, bk, fs, rt, em, fn>>

LogLockNoWait(c) ==
    /\ lg.pcs[c] = "lock"
    /\ lg' = [lg EXCEPT !.mu = c, !.pcs[c] = "println"]
    /\ UNCHANGED <<ctxVars, mainVars, workerVars, envVars, bursts, faults, watcherPc,
                   helperVars, vfy, bk, fs, rt, em, fn>>

\* writeLine: l.mu.Lock()
LogLock(c) ==
    /\ lg.pcs[c] = "lock" /\ lg.mu = 0
    /\ lg' = [lg EXCEPT !.mu = c, !.pcs[c] = "println"]
    /\ UNCHANGED <<ctxVars, mainVars, workerVars, envVars, bursts, faults, watcherPc,
                   helperVars, vfy, bk, fs, rt, em, fn>>

\* writeLine: fmt.Println(line), one write of the whole line to stdout
LogStdout(c) ==
    /\ lg.pcs[c] = "println"
    /\ lg' = [lg EXCEPT !.stdout = Append(@, lg.line[c]), !.pcs[c] = "file"]
    /\ UNCHANGED <<ctxVars, mainVars, workerVars, envVars, bursts, faults, watcherPc,
                   helperVars, vfy, bk, fs, rt, em, fn>>

\* writeLine: with a file, WriteString of the line without its ANSI sequences;
\* then the deferred l.mu.Unlock()
LogFile(c) ==
    /\ lg.pcs[c] = "file"
    /\ lg' = [lg EXCEPT !.file = IF lg.withFile
                                 THEN Append(@, [lg.line[c] EXCEPT !.ansi = FALSE])
                                 ELSE @,
                        !.mu = 0, !.pcs[c] = "idle"]
    /\ UNCHANGED <<ctxVars, mainVars, workerVars, envVars, bursts, faults, watcherPc,
                   helperVars, vfy, bk, fs, rt, em, fn>>

\* ---------------------------------------------------------- specifications

TaskNext(t) ==
    \/ TaskAcquire(t) \/ TaskGenerateReturn(t) \/ TaskRegister(t)
    \/ TaskTraceReturn(t) \/ TaskJobReturn(t) \/ PollDeadlinePass(t)
    \/ TaskResultReturn(t)
    \/ TaskUniquePair(t) \/ TaskWriteEN(t) \/ TaskWriteCN(t)
    \/ TaskConvertEN(t) \/ TaskConvertCN(t)

Next ==
    \/ CtxCancel
    \/ BootExchange \/ BootResolve \/ BootDownload \/ BootInstall \/ BootDiscover
    \/ \E t \in Tasks : TaskNext(t)
    \/ WatcherWake
    \/ \E who \in {"watcher", "main"} : HelperBegin(who) \/ HelperSkip(who)
    \/ CancelCtxExpire
    \/ \E j \in JobIds : CancelAcquire(j) \/ CancelJobReturn(j)
    \/ HelperEnd
    \/ MainWait \/ MainSelect \/ Execute

Spec == Init /\ [][Next]_vars

\* a single task's poll/trace loop against a freely answering service
NextTrace == \E t \in Tasks : TaskNext(t)

SpecTrace == InitTrace /\ [][NextTrace]_vars

\* the workers and RunGen's return on a context that stays live
NextPool ==
    \/ \E t \in Tasks : TaskNext(t)
    \/ MainWait

SpecPool == InitPool /\ [][NextPool]_vars

\* the workers, the watcher and RunGen's return under a caller's context.WithTimeout
NextQueue ==
    \/ CtxDeadline
    \/ \E t \in Tasks : TaskNext(t)
    \/ WatcherWake
    \/ MainWait

SpecQueue == InitQueue /\ [][NextQueue]_vars

\* one call of the signature check
NextVerify == VerifyCall

SpecVerify == InitVerify /\ [][NextVerify]_vars

\* calls of retryBackoff
NextBackoff == BackoffCall

SpecBackoff == InitBackoff /\ [][NextBackoff]_vars

\* SaveState, a stop of the process at any point of it, and later LoadState calls
NextSave ==
    \/ SavePrepare \/ SaveOpen \/ SaveWrite
    \/ SaveCrash
    \/ \E t \in Tenants : LoadAfter(t)

SpecSave == InitSave /\ [][NextSave]_vars

\* one call of a retry helper under a context that may be cancelled or run out
NextRetry ==
    \/ CtxCancel \/ CtxDeadline
    \/ RetryBuild \/ RetryCallReturn \/ RetryBackoffEnd

SpecRetry == InitRetry /\ [][NextRetry]_vars

\* the item loop of drainTrace on one page
NextEmit == EmitCall

SpecEmit == InitEmit /\ [][NextEmit]_vars

\* the watcher, the sweep and the cancel goroutines of a cancelled run
NextCancel ==
    \/ WatcherWake
    \/ \E who \in {"watcher", "main"} : HelperBegin(who) \/ HelperSkip(who)
    \/ CancelCtxExpire
    \/ \E j \in JobIds : CancelAcquire(j) \/ CancelJobReturn(j)
    \/ HelperEnd
    \/ MainSelect

SpecCancel == InitCancel /\ [][NextCancel]_vars

\* the workers, the cancellation and RunGen's return
NextLive ==
    \/ CtxCancel
    \/ \E t \in Tasks : TaskNext(t)
    \/ WatcherWake
    \/ \E who \in {"watcher", "main"} : HelperBegin(who) \/ HelperSkip(who)
    \/ CancelCtxExpire
    \/ \E j \in JobIds : CancelAcquire(j) \/ CancelJobReturn(j)
    \/ HelperEnd
    \/ MainWait \/ MainSelect

\* Every goroutine that can take a step takes one (the Go scheduler), every HTTP
\* call, write and converter returns, and time goes on; nothing obliges a signal
\* to arrive or the helper's 20 s to run out.
FairLive ==
    /\ \A t \in Tasks : WF_vars(TaskNext(t)) /\ WF_vars(PollDeadlinePass(t))
    /\ WF_vars(WatcherWake)
    /\ \A who \in {"watcher", "main"} : WF_vars(HelperBegin(who) \/ HelperSkip(who))
    /\ \A j \in JobIds : WF_vars(CancelAcquire(j)) /\ WF_vars(CancelJobReturn(j))
    /\ WF_vars(HelperEnd) /\ WF_vars(MainWait) /\ WF_vars(MainSelect)

SpecLive == InitLive /\ [][NextLive]_vars /\ FairLive

\* one call of a pure helper
SpecPure == InitPure /\ [][PureCall]_vars

\* the Logger under concurrent callers
SpecLog ==
    InitLog /\ [][\E c \in 1..LogCallers :
                     LogCall(c) \/ LogLock(c) \/ LogStdout(c) \/ LogFile(c)]_vars

\* ------------------------------------------------------------- properties

\* C1: in every reachable state the number of tasks holding a permit of sem, and
\* so the number of Generate requests in flight, is at most maxConcurrentTasks
\* (and the semaphore's count is exactly the number of holders).
C1_PermitsWithinCap ==
    LET holders == {t \in Tasks : pc[t] \notin {"unbuilt", "acquire", "done"}}
        inGenerate == {t \in Tasks : pc[t] = "generate"}
    IN  /\ Cardinality(holders) <= semSize
        /\ Cardinality(inGenerate) <= semSize
        /\ cur = Cardinality(holders)

\* C1 witness: every permit is held while another task still waits for one
C1_CapReachedWithWaiter ==
    /\ Cardinality({t \in Tasks : pc[t] \notin {"unbuilt", "acquire", "done"}}) = semSize
    /\ \E t \in Tasks : pc[t] = "acquire"

\* C2 (as stated): once RunGen has returned from a cancelled run, a CancelJob request
\* has been issued for every job in the registry (here even granted that the
\* helper's own 20 s deadline never passed).
C2_EveryRegisteredJobCancelled ==
    (mainPc \in {"returned", "exited"} /\ ctx = "canceled" /\ ~cancelCtxExpired)
        => \A j \in DOMAIN registry : cancelCalls[j] >= 1

\* C3: the body of cancelSubmittedTasks begins at most once per run and no job
\* receives more than one CancelJob request, whoever triggers the helper.
C3_CancelBodyOnce ==
    /\ bodyRuns <= 1
    /\ \A j \in Tasks : cancelCalls[j] <= 1

\* C3 witness: the watcher and the post-Wait sweep have both called the helper,
\* and a job received its CancelJob request
C3_BothTriggered ==
    /\ ctx = "canceled" /\ watcherPc = "done"
    /\ mainPc \in {"select", "returned", "exited"} /\ k > 0
    /\ bodyRuns = 1
    /\ \E j \in Tasks : cancelCalls[j] = 1

\* C4 (as stated): no two tasks that hold a pair returned by UniquePair hold the
\* same pair.
C4_PairsDistinct ==
    \A t1, t2 \in Tasks :
        (t1 # t2 /\ loc[t1].pair # 0 /\ loc[t2].pair # 0) => loc[t1].pair # loc[t2].pair

\* C5 (as stated): when RunGen has returned, the EN and CN Markdown files of every
\* task counted as a success exist and hold what Result returned for that task.
C5_SuccessFilesHoldOwnResult ==
    mainPc = "returned" =>
        \A t \in Tasks :
            outcome[t] = "success" =>
                /\ disk[<<loc[t].pair, "en">>] = t
                /\ disk[<<loc[t].pair, "cn">>] = t

\* C6 (as stated): in non-verbose mode no two consecutive lines emitted for a task
\* are equal.
C6_NoEqualNeighbours ==
    ~verbose =>
        \A t \in Tasks : \A n \in 1..(Len(log[t]) - 1) : log[t][n] # log[t][n + 1]

\* C6 (amended): in non-verbose mode no two consecutive rendered trace lines
\* emitted for a task are equal; the fetch-failure warning is not a trace line and
\* does not take part in the comparison.
C6_TraceLinesNeverRepeat ==
    ~verbose =>
        \A t \in Tasks :
            LET lines == SelectSeq(log[t], LAMBDA r : r[2] # WarnLine)
            IN  \A n \in 1..(Len(lines) - 1) : lines[n] # lines[n + 1]

\* C6 witness: a non-verbose task has emitted two trace lines from two pages
C6_TwoTraceLines ==
    /\ ~verbose
    /\ Len(SelectSeq(log[1], LAMBDA r : r[2] # WarnLine)) >= 2

\* C7 (as stated): every maximal run of consecutive failed JobTrace fetches of a
\* task has produced exactly one warning line.
C7_OneWarningPerBurst ==
    \A t \in Tasks :
        Len(SelectSeq(log[t], LAMBDA r : r = <<"info", WarnLine>>)) = bursts[t]

\* C7 (amended): in non-verbose mode every maximal run of consecutive failed
\* JobTrace fetches of a task has produced exactly one warning line, a successful
\* fetch in between starting a new run.
C7_OneWarningPerBurstQuiet ==
    ~verbose =>
        \A t \in Tasks :
            Len(SelectSeq(log[t], LAMBDA r : r = <<"info", WarnLine>>)) = bursts[t]

\* C7 witness: two runs of failures separated by a successful fetch, two warnings
C7_TwoBursts ==
    /\ ~verbose /\ bursts[1] = 2
    /\ log[1] = << <<"info", WarnLine>>, <<"info", WarnLine>> >>

\* C8: once the workers have finished and RunGen has returned, its value is the
\* cancellation error if the context was cancelled, otherwise the error
\* "存在失败任务" exactly when the failure counter is positive, and nil when it is zero.
C8_ReturnValue ==
    (mainPc \in {"returned", "exited"} /\ k > 0) =>
        /\ ctx = "canceled" => ret = "canceled"
        /\ (ctx # "canceled" /\ failedCount > 0) => ret = "failedTasks"
        /\ (ctx # "canceled" /\ failedCount = 0) => ret = "nil"

\* C8 witness: a cancelled run with failed tasks has returned
C8_CancelledWithFailures ==
    /\ mainPc = "returned" /\ k > 0
    /\ ctx = "canceled" /\ failedCount > 0

C10_ExitCodes ==
    (mainPc = "exited" /\ faults = 0) =>
        exitCode = (IF ctx = "canceled" THEN 130
                    ELSE IF k > 0 /\ successCount = k THEN 0 ELSE 1)

\* C11: a step in which a task ends counted as failed leaves the shared context as it
\* is, adds one to the failure counter only, and changes neither the position, the
\* locals nor the outcome of any other task; and when RunGen has returned every
\* built task has reached its own terminal state and was counted once.
C11_FailureLeavesSiblings ==
    /\ [][\A t \in Tasks :
            (outcome[t] = "none" /\ outcome'[t] = "failed") =>
                /\ ctx' = ctx
                /\ failedCount' = failedCount + 1 /\ successCount' = successCount
                /\ \A u \in Tasks \ {t} :
                       pc'[u] = pc[u] /\ loc'[u] = loc[u] /\ outcome'[u] = outcome[u]]_vars
    /\ [](mainPc = "returned" =>
            /\ \A t \in Built : pc[t] = "done" /\ outcome[t] # "none"
            /\ successCount = Cardinality({t \in Built : outcome[t] = "success"})
            /\ failedCount = Cardinality({t \in Built : outcome[t] = "failed"}))

\* C11 witness: one task failed on a live context and its sibling succeeded afterwards
C11_SiblingSucceeds ==
    /\ ctx = "active" /\ mainPc = "returned"
    /\ \E t, u \in Tasks : outcome[t] = "failed" /\ outcome[u] = "success"

\* C12: a task that saw the context's end before its Result call succeeded (a
\* JobTrace of one of its drains failed on the ended context, or the Result call
\* began on the ended context) never reaches the naming or writing steps and
\* never holds an output pair.
C12_NoWriteAfterObservedCancel ==
    \A t \in Tasks :
        /\ pc[t] \in {"name", "writeEN", "writeCN"} => loc[t].live
        /\ (ctx # "active" /\ log[t] # <<>>) =>
               /\ pc[t] \notin {"name", "writeEN", "writeCN", "convEN", "convCN"}
               /\ loc[t].pair = 0
               /\ outcome[t] # "success"

\* C12 witness: a drain of the task failed on the cancelled context, the task ended
\* as failed and the output directory is empty
C12_CancelSeenInDrain ==
    /\ ctx = "canceled" /\ log[1] # <<>> /\ outcome[1] = "failed"
    /\ 1 \in DOMAIN registry
    /\ \A p \in Paths : disk[p] = Absent

\* C13 (as stated): after a task of a cancelled run has ended, either none or all
\* four of its output files exist (here for runs in which nothing but the
\* cancellation went wrong and no write or converter left a broken file).
C13_NoneOrAllFour ==
    \A t \in Tasks :
        (/\ ctx = "canceled" /\ faults = 0 /\ pc[t] = "done"
         /\ \A p \in Paths : disk[p] # Partial(t)) =>
            Cardinality({p \in Paths : disk[p] = t}) \in {0, 4}

\* C14 (as stated): when a step of the rules sync fails (ResolveRules, the download,
\* the sha256 comparison, the signature check), a run that began without a usable
\* cache returns an error before any task is built and logs no fallback notice; a
\* run that began with a usable cache logs the fallback notice of that step and
\* goes on with the cached state.
C14_SyncFailureHandling ==
    sync.failed \in {"resolve", "download", "sha", "sig"} =>
        IF sync.usable0
        THEN sync.notice = sync.failed /\ sync.json = "prev"
        ELSE /\ mainPc \in {"returned", "exited"} /\ k = 0
             /\ ret \notin {"none", "nil"}
             /\ sync.notice = "none"

\* C15: the signature check answers with the error of the first failing check in
\* the order: archive signature blank, signing-key path blank, signing-key
\* signature blank, extraction of the signing key, signing-key signature against
\* the root key, archive signature against the signing key; it answers nil only
\* when every check passes, and with the signing-key error when both signatures
\* are corrupt.
C15_VerifyOrder ==
    vfy.res # "none" =>
        LET i == vfy.in
            r == vfy.res
            filled == i.archSig # "blank" /\ i.keyPath # "blank" /\ i.keySig # "blank"
        IN  /\ i.archSig = "blank" => r = "archive_sig_missing"
            /\ (i.archSig # "blank" /\ i.keyPath = "blank") => r = "key_path_missing"
            /\ (i.archSig # "blank" /\ i.keyPath # "blank" /\ i.keySig = "blank")
                   => r = "key_sig_missing"
            /\ (filled /\ i.rootOk /\ i.keyPath = "missing") => r = "extract_error"
            /\ (filled /\ i.rootOk /\ i.keyPath = "present" /\ i.keySig = "wrong")
                   => r = "key_verify_failed"
            /\ (filled /\ i.rootOk /\ i.keyPath = "present" /\ i.keySig = "good"
                    /\ i.archSig = "wrong") => r = "archive_verify_failed"
            /\ r = "ok" <=> i = GoodInput

\* C15 witness: both signatures are corrupt and the signing-key error was returned
C15_BothCorrupt ==
    /\ vfy.in.archSig = "wrong" /\ vfy.in.keySig = "wrong"
    /\ vfy.in.keyPath = "present" /\ vfy.in.rootOk
    /\ vfy.res = "key_verify_failed"

\* C16: current.json changes only in the step of the sync that found the sha256 of
\* the download equal to the advertised one and both signatures valid, after the
\* steps sha check, archive saved, signature verified, state written in this
\* order; after a failed resolve, download, sha comparison or signature check, and
\* when the sync did not download at all, it holds what it held before.
C16_StateReplacedOnlyAfterChecks ==
    /\ [][sync'.json # sync.json =>
            /\ mainPc = "install"
            /\ sync'.shaOk /\ sync'.sigOk
            /\ sync'.trail = <<"sha", "archive", "verify", "state">>]_vars
    /\ [](sync.failed \in {"resolve", "download", "sha", "sig"} => sync.json = "prev")
    /\ []((mainPc = "discover" /\ sync.trail = <<>>) => sync.json = "prev")
    /\ [](sync.json = "new" => sync.failed = "none")

\* C16 witness: a sync that downloaded, checked and saved has replaced current.json
C16_StateReplaced ==
    /\ mainPc = "discover" /\ sync.json = "new"
    /\ sync.shaOk /\ sync.sigOk
    /\ sync.trail = <<"sha", "archive", "verify", "state">>

\* C17 (as stated): after the process stopped during SaveState, a later LoadState
\* for a tenant returns the state that tenant had before or the new state, never
\* an error.
C17_LoadSeesOldOrNew ==
    \A t \in Tenants :
        (fs.crashed /\ fs.loaded[t] # "none") =>
            fs.loaded[t] \in {LoadState(fs.prev[t]), "new"}

\* C18: a retry helper makes at most maxAttempts attempts; an attempt that
\* succeeded, or failed with a status outside 2xx and outside {408, 425, 429, 500,
\* 502, 503, 504}, is the last one; every attempt is preceded by a call of the
\* request factory for that attempt; and between two consecutive attempts n and
\* n+1 lies exactly one retry event, carrying attempt n and next_attempt n+1.
C18_RetryDiscipline ==
    LET tr == rt.trace
        tries == Len(SelectSeq(tr, LAMBDA e : e[1] = "try"))
    IN  /\ tries <= rt.max
        /\ \A i \in 1..Len(tr) :
             /\ tr[i][1] = "build" =>
                    /\ tr[i][2] = Len(SelectSeq(SubSeq(tr, 1, i), LAMBDA e : e[1] = "try")) + 1
                    /\ i > 1 => (tr[i - 1][1] = "retry" /\ tr[i - 1][3] = tr[i][2])
             /\ tr[i][1] = "try" =>
                    i > 1 /\ tr[i - 1][1] = "build" /\ tr[i - 1][2] = tr[i][2]
             /\ tr[i][1] = "retry" =>
                    /\ tr[i - 1][1] = "try" /\ tr[i - 1][2] = tr[i][2]
                    /\ tr[i][3] = tr[i][2] + 1
                    /\ i < Len(tr) => tr[i + 1][1] = "build"
        /\ (rt.ans.kind = "status" /\ rt.ans.code \in 200..299)
               => (rt.pc = "done" /\ rt.res = "nil")
        /\ (rt.ans.kind = "status" /\ rt.ans.code \notin 200..299
                /\ rt.ans.code \notin {408, 425, 429, 500, 502, 503, 504})
               => (rt.pc = "done" /\ rt.res = "answer")
        /\ rt.res = "nil" => IsSuccess(rt.ans)

\* C18 witness: a call with the budget of five succeeded at its fifth attempt,
\* after four retry events
C18_SucceededAtLastAttempt ==
    /\ rt.max = exchangeMaxAttempts /\ rt.pc = "done" /\ rt.res = "nil"
    /\ Len(SelectSeq(rt.trace, LAMBDA e : e[1] = "try")) = exchangeMaxAttempts
    /\ Len(SelectSeq(rt.trace, LAMBDA e : e[1] = "retry")) = exchangeMaxAttempts - 1

\* C19: retryBackoff(n) is min(300 ms * 2^(n-1), 4 s) for n >= 1, is the base
\* 300 ms for n <= 0, never exceeds 4 s, and does not decrease when n grows.
C19_BackoffCurve ==
    bk.ra # -1 =>
        /\ bk.a >= 1 =>
               bk.ra = (IF retryBackoffBase * 2 ^ (bk.a - 1) < retryBackoffMax
                        THEN retryBackoffBase * 2 ^ (bk.a - 1) ELSE retryBackoffMax)
        /\ bk.a <= 0 => bk.ra = retryBackoffBase
        /\ bk.ra <= retryBackoffMax /\ bk.rb <= retryBackoffMax
        /\ bk.a <= bk.b => bk.ra <= bk.rb

\* C19 witness: the ceiling is reached at the fifth attempt, the base returned for 0
C19_CeilingReached ==
    /\ bk.a = exchangeMaxAttempts /\ bk.ra = retryBackoffMax
    /\ bk.b = 0 /\ bk.rb = retryBackoffBase

\* C20: when the context had ended at the moment a retry helper reached its backoff
\* wait, the helper makes no further attempt and returns the context's error.
C20_CancelBeatsBackoff ==
    rt.endedAtWait =>
        /\ rt.pc \in {"backoff", "done"}
        /\ rt.trace[Len(rt.trace)][1] = "retry"
        /\ rt.pc = "done" => rt.res = CtxError(ctx)

\* C20 witness: an attempt in flight failed with io.EOF after the cancellation, and
\* the helper returned the cancellation error from its backoff wait
C20_CancelledAtWait ==
    /\ rt.endedAtWait /\ rt.pc = "done"
    /\ ctx = "canceled" /\ rt.res = "canceled"
    /\ rt.ans = Failed("eof")

\* The state of a task in the words of the specification: Submitting up to the
\* registration of the job, Polling in the poll loop (its drain and its Job call),
\* Draining in the drain that follows a terminal status, Writing from Result to the
\* second Markdown file, Converting in the two converters; at the end Done after
\* "return true", Cancelled after "已取消" or "生成已取消", Failed otherwise.
Phase(t) ==
    CASE pc[t] = "unbuilt" -> "None"
      [] pc[t] \in {"acquire", "generate", "register"} -> "Submitting"
      [] pc[t] = "job" -> "Polling"
      [] pc[t] = "trace" -> (IF loc[t].drainRet = "poll" THEN "Polling" ELSE "Draining")
      [] pc[t] \in {"result", "name", "writeEN", "writeCN"} -> "Writing"
      [] pc[t] \in {"convEN", "convCN"} -> "Converting"
      [] OTHER -> IF outcome[t] = "success" THEN "Done"
                  ELSE IF final[t] \in {"ctx_cancelled", "job_cancelled"}
                  THEN "Cancelled" ELSE "Failed"

\* C21: a task only moves Submitting -> Polling -> Draining -> Writing -> Converting
\* -> Done, or from a non-terminal state to Failed or Cancelled, and never leaves a
\* terminal state; Result is called only after a poll returned "succeeded"; the
\* status "failed" ends the task Failed with the service's error, "cancelled" ends
\* it Cancelled, any other status leads to another poll.
C21_TaskStateMachine ==
    /\ [][\A t \in Tasks :
            \/ Phase(t)' = Phase(t)
            \/ <<Phase(t), Phase(t)'>> \in
                   {<<"Submitting", "Polling">>, <<"Polling", "Draining">>,
                    <<"Draining", "Writing">>, <<"Writing", "Converting">>,
                    <<"Converting", "Done">>}
            \/ /\ Phase(t) \in {"Submitting", "Polling", "Draining", "Writing",
                                "Converting"}
               /\ Phase(t)' \in {"Failed", "Cancelled"}]_vars
    /\ [](\A t \in Tasks : pc[t] = "result" => loc[t].drainRet = "succeeded")
    /\ [][\A t \in Tasks :
            /\ (pc[t] # "result" /\ pc'[t] = "result") =>
                   (pc[t] = "trace" /\ loc[t].drainRet = "succeeded")
            /\ (pc[t] = "trace" /\ loc[t].drainRet = "failed" /\ pc'[t] # "trace") =>
                   (Phase(t)' = "Failed" /\ final'[t] = "service_error")
            /\ (pc[t] = "trace" /\ loc[t].drainRet = "cancelled" /\ pc'[t] # "trace") =>
                   (Phase(t)' = "Cancelled" /\ final'[t] = "job_cancelled")
            /\ (pc[t] = "job" /\ pc'[t] = "trace" /\ loc'[t].drainRet = "poll") =>
                   /\ pollLeft[t] # 0
                   /\ pollLeft'[t] = (IF pollLeft[t] = Forever THEN Forever
                                      ELSE pollLeft[t] - 1)
            /\ (pc[t] = "job" /\ pc'[t] # "job") =>
                   \/ pc'[t] = "done" /\ final'[t] \in {"ctx_cancelled", "error"}
                   \/ pc'[t] = "trace" /\ loc'[t].i = 0 ]_vars

\* C21 witness: the service reported "cancelled" for the registered job of a task
\* on a live context, and the task ended Cancelled after the drain
C21_CancelledAfterPolls ==
    \E t \in Tasks :
        /\ pollLeft[t] = 0 /\ Phase(t) = "Cancelled"
        /\ final[t] = "job_cancelled" /\ ctx = "active"
        /\ t \in DOMAIN registry

\* C22: with every call returning, a task whose job never reports a terminal status
\* ends Failed with the line 生成失败：轮询超时 once the poll deadline has passed
\* (the deadline test that follows a drain); every task ends and RunGen returns.
C22_PollTimeoutEndsTask ==
    /\ [][\A t \in Tasks :
            (pc[t] = "trace" /\ loc[t].drainRet = "poll" /\ loc[t].late
                 /\ pc'[t] # "trace") =>
                (pc'[t] = "done" /\ outcome'[t] = "failed" /\ final'[t] = "timeout")]_vars
    /\ [](\A t \in Tasks :
            (pollLeft[t] = Forever /\ pc[t] = "done" /\ ctx = "active" /\ faults = 0) =>
                (outcome[t] = "failed" /\ final[t] = "timeout"))
    /\ \A t \in Tasks : (pollLeft[t] = Forever /\ pc[t] \in {"trace", "job"})
                            ~> (pc[t] = "done")
    /\ \A t \in Tasks : <>(pc[t] \in {"done", "unbuilt"})
    /\ <>(mainPc = "returned")

\* C22 witness: on a live context and without any fault, the task of a job that
\* never finishes was ended by the poll deadline, and RunGen has returned
C22_TimedOutAndReturned ==
    \E t \in Tasks :
        /\ pollLeft[t] = Forever /\ final[t] = "timeout" /\ outcome[t] = "failed"
        /\ ctx = "active" /\ faults = 0 /\ mainPc = "returned"

C24_FinalLineAfterTrace ==
    [][\A t \in Tasks :
         /\ final[t] # "none" => (log'[t] = log[t] /\ final'[t] = final[t])
         /\ (pc[t] = "job" /\ pc'[t] \notin {"job", "done"}) =>
                (pc'[t] = "trace" /\ loc'[t].i = 0 /\ final'[t] = "none")
         /\ (pc[t] # "result" /\ pc'[t] = "result") =>
                (pc[t] = "trace" /\ loc[t].drainRet = "succeeded")
         /\ (final[t] = "none" /\ final'[t] \in {"service_error", "job_cancelled"}) =>
                (pc[t] = "trace" /\ loc[t].drainRet \in {"failed", "cancelled"})
         /\ (final[t] = "none" /\ final'[t] = "written") =>
                (pc[t] = "convCN" /\ loc[t].drainRet = "succeeded")]_vars

\* C24 witness: the job failed, trace lines of the task were logged, and the line
\* with the service's error was logged at the end
C24_ErrorLineAfterTraceLines ==
    \E t \in Tasks :
        /\ final[t] = "service_error" /\ pc[t] = "done"
        /\ Len(log[t]) >= 2

\* C25: the trace offset of a running task never decreases from one JobTrace answer
\* to the next, and a failed fetch leaves it as it was.
C25_OffsetNeverDecreases ==
    [][\A t \in Tasks :
         (pc[t] = "trace" /\ pc'[t] # "done") =>
             /\ loc'[t].traceOffset >= loc[t].traceOffset
             /\ loc'[t].inBurst => loc'[t].traceOffset = loc[t].traceOffset]_vars

C27_OneRecordPerItem ==
    em.pc = "done" =>
        LET Shown(item) == item # "suppressed"
            IsLine(r) == r[1] = "info"
        IN  IF em.vb
            THEN em.out = [n \in 1..Len(SelectSeq(em.items, Shown)) |->
                               <<"event", "worker_trace">>]
            ELSE \A n \in 1..Len(em.out) : IsLine(em.out[n])

\* C27 (amended): in verbose mode every drained item outside the suppressed pair
\* produces the NDJSON record of the raw item and, when its rendered line is not
\* blank, right after it a second NDJSON record (event "info") with that line,
\* repeated lines included; a suppressed item produces no record. In non-verbose
\* mode only rendered lines are logged, none equal to the line logged before it.
C27_VerboseRecords ==
    em.pc = "done" =>
        LET Shown(item) == item # "suppressed"
            HasLine(item) == item \in Msgs
            IsRaw(r) == r = <<"event", "worker_trace">>
            IsLine(r) == r[1] = "info"
            lines == SelectSeq(em.out, IsLine)
        IN  IF em.vb
            THEN /\ Len(SelectSeq(em.out, IsRaw)) = Len(SelectSeq(em.items, Shown))
                 /\ [n \in 1..Len(lines) |-> lines[n][2]] = SelectSeq(em.items, HasLine)
                 /\ Len(em.out) = Len(SelectSeq(em.out, IsRaw)) + Len(lines)
                 /\ \A n \in 1..Len(em.out) :
                        IsLine(em.out[n]) => (n > 1 /\ IsRaw(em.out[n - 1]))
            ELSE /\ \A n \in 1..Len(em.out) : IsLine(em.out[n])
                 /\ Len(em.out) <= Len(SelectSeq(em.items, HasLine))
                 /\ em.out # <<>> => em.out[1][2] # em.last
                 /\ \A n \in 1..(Len(em.out) - 1) : em.out[n] # em.out[n + 1]

\* C27 witness: verbose mode, a page of two items with the same rendered line:
\* four records, two of them raw items
C27_TwoRecordsPerItem ==
    /\ em.pc = "done" /\ em.vb
    /\ em.items = <<"m1", "m1">>
    /\ em.out = <<(<<"event", "worker_trace">>), (<<"info", "m1">>),
                  (<<"event", "worker_trace">>), (<<"info", "m1">>)>>

\* C28: a task whose Generate call succeeded has an entry for its job in the
\* registry of submitted jobs from before its first poll on, whatever job id the
\* service returned; entries are never removed.
C28_SubmittedJobRegistered ==
    /\ [](\A t \in Tasks :
            pc[t] \in {"trace", "job", "result", "name", "writeEN", "writeCN",
                       "convEN", "convCN"} =>
                \E id \in DOMAIN registry : registry[id] = t)
    /\ [][\A id \in DOMAIN registry :
            id \in DOMAIN registry' /\ registry'[id] = registry[id]]_vars

\* C29: in the cancel helper's pass at most cancelPermits (8) CancelJob requests
\* are in flight, and the requests depend on the helper's own 20 s context only:
\* with the main context cancelled a goroutine gives up before its request only
\* when the 20 s have passed, and when they have not passed every job of the
\* snapshot has had its request by the end of the pass.
C29_CancelRequestsBounded ==
    /\ [](/\ cancelCur <= cancelPermits
          /\ cancelCur = Cardinality({j \in JobIds : cpc[j] = "calling"}))
    /\ [][\A j \in JobIds :
            /\ (cpc[j] = "acquire" /\ cpc'[j] = "done") => cancelCtxExpired
            /\ (cpc[j] = "acquire" /\ cpc'[j] = "calling") =>
                   (ctx = "canceled" /\ cancelCur < cancelPermits)]_vars
    /\ [](\A j \in jobs :
            (once = "done" /\ ~cancelCtxExpired) => cancelCalls[j] = 1)

\* C29 witness: the main context is cancelled, eight CancelJob requests are in
\* flight under the helper's live context and a ninth goroutine waits for a permit
C29_EightInFlight ==
    /\ ctx = "canceled" /\ ~cancelCtxExpired
    /\ cancelCur = cancelPermits
    /\ \E j \in jobs : cpc[j] = "acquire"

C31_TasksAndLabels ==
    (fn.op = "tasks" /\ fn.pc = "done") =>
        LET nf == Len(fn.files)
            Digit(i) == CASE i = 1 -> "1" [] i = 2 -> "2" [] i = 3 -> "3"
                          [] i = 4 -> "4" [] OTHER -> "5"
        IN  /\ Len(fn.out) = nf * fn.num
            /\ \A f \in 1..nf : \A i \in 1..fn.num :
                 /\ Cardinality({n \in DOMAIN fn.out :
                        fn.out[n].file = fn.files[f] /\ fn.out[n].index = i}) = 1
                 /\ LET task == fn.out[(f - 1) * fn.num + i]
                        base == fn.files[f][2]
                    IN  /\ task.file = fn.files[f] /\ task.index = i
                        /\ (nf > 1 /\ fn.num > 1) =>
                               task.label = base \o <<"#", Digit(i)>>
                        /\ (nf > 1 /\ fn.num = 1) => task.label = base
                        /\ (nf = 1 /\ fn.num > 1) => task.label = <<"#", Digit(i)>>
                        /\ (nf = 1 /\ fn.num = 1) => task.label = <<>>

\* C31 witness: two files and three replicas: six tasks, the last one labelled
\* with the second file's base name and "#3"
C31_SixTasks ==
    /\ fn.op = "tasks" /\ fn.pc = "done"
    /\ Len(fn.files) = 2 /\ fn.num = 3 /\ Len(fn.out) = 6
    /\ fn.out[6].label = fn.files[2][2] \o <<"#", "3">>

\* C32: in a run with more than one task, distinct tasks have distinct labels.
C32_LabelsDistinct ==
    (fn.op = "tasks" /\ fn.pc = "done" /\ Len(fn.out) > 1) =>
        \A m, n \in DOMAIN fn.out : m # n => fn.out[m].label # fn.out[n].label

\* C33: the writes of the Logger are mutually exclusive: at most one caller is
\* between Lock and Unlock, every line reaches stdout whole and once, the file
\* holds the lines of stdout in the same order (without their ANSI sequences; the
\* line being written may still be missing), and in non-verbose mode the output is
\* one line for each call of Info, in the caller's order, and none for Event.
C33_LoggerWritesExclusive ==
    LET Callers == 1..LogCallers
        inside == {c \in Callers : lg.pcs[c] \in {"println", "file"}}
        filed == Len(lg.stdout) - Cardinality({c \in Callers : lg.pcs[c] = "file"})
        IsInfo(op) == op = "info"
        LinesOf(c) == LET By(l) == l.who = c IN SelectSeq(lg.stdout, By)
        Written(c) == IF lg.pcs[c] \in {"lock", "println"}
                      THEN SubSeq(lg.made[c], 1, Len(lg.made[c]) - 1)
                      ELSE lg.made[c]
    IN  lg.pcs # <<>> =>
        /\ Cardinality(inside) <= 1
        /\ \A c \in inside : lg.mu = c
        /\ \A m, n \in DOMAIN lg.stdout : m # n => lg.stdout[m] # lg.stdout[n]
        /\ lg.withFile =>
               lg.file = [n \in 1..filed |-> [lg.stdout[n] EXCEPT !.ansi = FALSE]]
        /\ ~lg.withFile => lg.file = <<>>
        /\ \A c \in Callers :
             LET calls == IF lg.vb THEN Written(c) ELSE SelectSeq(Written(c), IsInfo)
             IN  /\ Len(LinesOf(c)) = Len(calls)
                 /\ \A n \in DOMAIN calls :
                      /\ LinesOf(c)[n].op = calls[n] /\ LinesOf(c)[n].json = lg.vb
                      /\ n > 1 => LinesOf(c)[n].n > LinesOf(c)[n - 1].n

\* C33 witness: not verbose, with a file: both goroutines have made their calls,
\* among them an Event and a coloured Info of each, the second goroutine's line
\* came first, and the file holds the same lines without colour
C33_TwoCallersLogged ==
    /\ lg.pcs # <<>> /\ ~lg.vb /\ lg.withFile
    /\ \A c \in 1..LogCallers : lg.pcs[c] = "idle" /\ lg.made[c] = <<"event", "info">>
    /\ Len(lg.stdout) = LogCallers /\ Len(lg.file) = LogCallers
    /\ lg.stdout[1].who = 2 /\ lg.stdout[1].ansi /\ ~lg.file[1].ansi

\* C34: renderWorkerTraceLine decides in strict precedence: the pair (source api,
\* event job_status_read or job_result_not_ready) is suppressed even with a
\* message; otherwise a non-blank payload.message is returned trimmed whatever the
\* event; otherwise the event's own mapping applies; otherwise the first matching
\* row of the fallback matrix, in its listed order.
C34_RenderPrecedence ==
    (fn.op = "render" /\ fn.pc = "done") =>
        LET it == fn.item
            ev == it.event
            n == Len(ev)
            suppressed == it.source = "api" /\
                          ev \in {<<"job", "status", "read">>,
                                  <<"job", "result", "not", "ready">>}
            hasMessage == it.msg = " hi "
            own == ev \in {<<"generate", "queued">>, <<"api", "failed">>,
                           <<"job", "failed">>, <<"section", "generate", "ok">>,
                           <<"section", "sentence", "step", "validate", "fail">>}
            Has(a, b) == \E m \in 1..(n - 1) : ev[m] = a /\ ev[m + 1] = b
            row == IF ev[n] = "start" /\ it.step # "" THEN 1
                   ELSE IF Has("repair", "needed") \/ Has("validate", "fail") THEN 2
                   ELSE IF ev[n - 1] = "repair" /\ ev[n] = "ok" THEN 3
                   ELSE IF ev[n] = "ok" /\ it.step # "" THEN 4
                   ELSE IF ev[n] = "failed" THEN 5
                   ELSE IF it.err # "" THEN 6 ELSE 7
        IN  /\ suppressed => fn.out = <<>>
            /\ (~suppressed /\ hasMessage) => fn.out = <<"message", "hi">>
            /\ (~suppressed /\ ~hasMessage /\ own) =>
                   fn.out = (IF ev = <<"api", "failed">> THEN <<>>
                             ELSE IF ev = <<"generate", "queued">>
                             THEN <<"queued", it.jobID>>
                             ELSE <<"event", ev>>)
            /\ (~suppressed /\ ~hasMessage /\ ~own) =>
                   fn.out = (<<(<<>>), <<"rule_fail">>, <<"repair_done">>, <<"step_done">>,
                               <<"failed", it.err>>, <<"error", it.err>>, (<<>>)>>)[row]

\* C34 witness: an item of the suppressed pair that carries a message was rendered
\* and gave no line
C34_SuppressedDespiteMessage ==
    /\ fn.op = "render" /\ fn.pc = "done"
    /\ fn.item.source = "api" /\ fn.item.event = <<"job", "status", "read">>
    /\ fn.item.msg = " hi " /\ fn.out = <<>>

\* C35 (as stated): for every combination of the fields actual, ruleMin, ruleMax,
\* tolMin, tolMax of a length-constraint error the rendering is
\* "<actual> < [<tolMin>[<ruleMin>,<ruleMax>]<tolMax>] 低于下限" exactly when
\* actual < tolMin and "[<tolMin>[<ruleMin>,<ruleMax>]<tolMax>] < <actual> 高于上限"
\* otherwise.
C35_LowOrHigh ==
    (fn.op = "range" /\ fn.pc = "done") =>
        fn.out = (IF fn.actual < fn.tolMin
                  THEN [form |-> "low",
                        shown |-> <<fn.actual, fn.tolMin, fn.ruleMin, fn.ruleMax,
                                    fn.tolMax>>]
                  ELSE [form |-> "high",
                        shown |-> <<fn.tolMin, fn.ruleMin, fn.ruleMax, fn.tolMax,
                                    fn.actual>>])

\* C35 (amended): when all five fields are numbers strconv.Atoi parses, the
\* rendering is the 低于下限 form exactly when actual < tolMin and the 高于上限
\* form otherwise; when one of them is not, it is "<actual> ? [<tolMin>[<ruleMin>,
\* <ruleMax>]<tolMax>]" with the fields as they were written.
C35_LowOrHighWhenParsed ==
    (fn.op = "range" /\ fn.pc = "done") =>
        LET parsed == /\ fn.actual <= MaxInt /\ fn.ruleMin <= MaxInt
                      /\ fn.ruleMax <= MaxInt /\ fn.tolMin <= MaxInt
                      /\ fn.tolMax <= MaxInt
        IN  /\ fn.out.form = (IF ~parsed THEN "unparsed"
                              ELSE IF fn.actual < fn.tolMin THEN "low" ELSE "high")
            /\ fn.out.shown = (IF fn.out.form = "high"
                               THEN <<fn.tolMin, fn.ruleMin, fn.ruleMax, fn.tolMax,
                                      fn.actual>>
                               ELSE <<fn.actual, fn.tolMin, fn.ruleMin, fn.ruleMax,
                                      fn.tolMax>>)

\* C35 witness: an actual length between the rule's minimum and the tolerance's
\* minimum is rendered in the 低于下限 form
C35_BelowTolerance ==
    /\ fn.op = "range" /\ fn.pc = "done"
    /\ fn.actual = 0 /\ fn.tolMin = 1 /\ fn.ruleMin = 2 /\ fn.ruleMax = 2 /\ fn.tolMax = 2
    /\ fn.out.form = "low"

\* C36: an operation of the rules store for one tenant (LoadState, SaveState,
\* SaveArchive, Clear) leaves every file below another tenant's directory of the
\* cache root as it was: none is created, changed or deleted. The other tenant
\* here is "b", whose cache holds the same version as the caller's.
C36_OtherTenantUntouched ==
    (fn.op \in {"LoadState", "SaveState", "SaveArchive", "Clear"} /\ fn.pc = "done") =>
        \A q \in DOMAIN fn.files \cup DOMAIN fn.out :
            (q # <<>> /\ q[1] = "b") =>
                (q \in DOMAIN fn.files /\ q \in DOMAIN fn.out /\ fn.out[q] = fn.files[q])

\* C37: when a sync falls back to the cached rules after a failed download, a SHA
\* mismatch or a failed signature check of a newly advertised archive, the cached
\* archive the run goes on with holds the bytes it held before the sync, whatever
\* the advertised version, the cached one included.
C37_FallbackKeepsCachedArchive ==
    (sync.usable0 /\ sync.notice \in {"download", "sha", "sig"}) => ~sync.unverified

\* C38: in a run whose context stays live, each counter equals the number of
\* tasks that ended that way, one step moves the two counters by one in all and
\* only as a task ends, and when RunGen returns (the final line logged) every
\* built task has ended and success + failed is the number of tasks built.
C38_EveryTaskCountedOnce ==
    /\ successCount = Cardinality({t \in Tasks : outcome[t] = "success"})
    /\ failedCount = Cardinality({t \in Tasks : outcome[t] = "failed"})
    /\ \A t \in Tasks : (outcome[t] \in {"success", "failed"}) => (t \in Built /\ pc[t] = "done")
    /\ (mainPc = "returned" /\ ctx = "active") =>
           /\ successCount + failedCount = k
           /\ \A t \in Built : outcome[t] \in {"success", "failed"}

\* C38 witness: an uncancelled run has returned with one task succeeded and
\* another failed
C38_ReturnedWithBoth ==
    /\ mainPc = "returned" /\ ctx = "active" /\ k = PoolTasks
    /\ successCount > 0 /\ failedCount > 0

====
